---- MODULE Spec2Model ----
(***************************************************************************)
(* Model of the text engine of the Smart Markdown Editor                   *)
(* (src/markdown_editor.py): the reformatter MarkdownEditor.format_markdown,*)
(* the line classifier MarkdownSyntaxHighlighter.highlightBlock and the    *)
(* metrics of MarkdownAnalyzer.                                            *)
(*                                                                         *)
(* A text is a sequence of one-character strings; "\n" is the newline.     *)
(* Regular expressions of the source are written out as matchers over such *)
(* sequences, with the greedy / backtracking behaviour of the engine.      *)
(***************************************************************************)
EXTENDS Integers, Sequences, FiniteSets, TLC

VARIABLES
    text,          \* format_markdown: the argument `text`
    formatted,     \* the result slot of format_markdown(text)
    reformatted,   \* the result slot of format_markdown(formatted)
    blocks,        \* highlighter: the text blocks (lines) of the document
    dark_mode,     \* highlighter: self._dark_mode
    blockState,    \* highlighter: the block state of every block (-1: none)
    blockFormats,  \* highlighter: the setFormat calls made for every block
    scanned,       \* highlighter: number of blocks the running scan has done
    rehighlights,  \* highlighter: number of rehighlight() calls made so far
    an_text,       \* analyzer: self.text
    an_lines,      \* analyzer: self.lines
    metrics,       \* the result slot of analyzer.analyze()
    editor,        \* window: the text of self.editor
    modified,      \* window: self.editor.document().isModified()
    current_file,  \* window: self.current_file ("" for None)
    recent_files,  \* window: self._recent_files
    disk,          \* the file system: absolute path -> content, if any
    update_timer,  \* window: self.update_timer (single-shot)
    analysis_timer,\* window: self.analysis_timer (single-shot)
    preview_shown, \* the editor text the last update_preview rendered
    analysis_shown,\* the editor text the last update_analysis read
    since_change,  \* time since the last textChanged signal (saturating)
    previews_since,\* timer-driven update_preview runs since that signal
    analyses_since,\* timer-driven update_analysis runs since that signal
    changes,       \* number of edits typed so far
    used,          \* number of paths the file dialogs have returned so far
    last_op,       \* the last file operation and what it did
    latest         \* path of the latest successful open or explicit save

fmtVars == <<text, formatted, reformatted>>
hlVars == <<blocks, dark_mode, blockState, blockFormats, scanned, rehighlights>>
anVars == <<an_text, an_lines, metrics>>
timerVars == <<update_timer, analysis_timer, preview_shown, analysis_shown,
               since_change, previews_since, analyses_since>>
fileVars ==
    <<current_file, recent_files, disk, used, last_op, latest>>
edVars == <<editor, modified, changes, timerVars, fileVars>>
vars == <<text, formatted, reformatted,
          blocks, dark_mode, blockState, blockFormats, scanned, rehighlights,
          an_text, an_lines, metrics, edVars>>

\* A result slot: empty before the call (None), Some(v) after it returned v.
Null == [done |-> FALSE, value |-> <<>>]
Some(v) == [done |-> TRUE, value |-> v]

\* The components a specification does not exercise stay as constructed on
\* an empty document.
FmtIdle ==
    /\ text = <<>>
    /\ formatted = Null
    /\ reformatted = Null

HlIdle ==
    /\ blocks = << <<>> >>
    /\ dark_mode = FALSE
    /\ blockState = <<-1>>
    /\ blockFormats = << <<>> >>
    /\ scanned = 0
    /\ rehighlights = 0

AnIdle ==
    /\ an_text = <<>>
    /\ an_lines = << <<>> >>
    /\ metrics = Null

\* The paths a file dialog can return: MaxPaths files of the working
\* directory, by their absolute path.  The first one is also reachable
\* by a relative spelling.
MaxPaths == 11
Cwd == "/w"
RelPath(n) == ToString(n) \o ".md"
AbsPath(n) == Cwd \o "/" \o RelPath(n)
AbsPaths == {AbsPath(n) : n \in 1..MaxPaths}
RelPaths == {RelPath(1)}

\* os.path.abspath(p)
abspath(p) == IF p \in RelPaths THEN Cwd \o "/" \o p ELSE p

\* The files on disk when the program starts: every path of the working
\* directory is a file; the first one has some content.
InitialDisk ==
    [p \in AbsPaths |-> IF p = AbsPath(1) THEN Some(<<"a">>) ELSE Some(<<>>)]

\* A timer that is not running.
Stopped == [active |-> FALSE, remaining |-> 0]

\* os.path.exists(p)
exists(d, p) == abspath(p) \in DOMAIN d /\ d[abspath(p)].done

\* _rebuild_recent_files_menu(): the list keeps the paths that exist.
_rebuild_recent_files_menu(recent, d) ==
    LET existing(p) == p # "" /\ exists(d, p)
    IN  SelectSeq(recent, existing)

\* What is recorded of an operation: which one, whether it succeeded,
\* whether it wrote to a file, whether it showed an error dialog.
Did(op, ok, wrote, dialog) ==
    [op |-> op, ok |-> ok, wrote |-> wrote, dialog |-> dialog]

\* MarkdownEditor.__init__ on a profile whose settings hold the list
\* persisted: no current file, the recent files loaded and the menu built
\* from them, an empty unmodified editor, both single-shot timers created
\* and not started, update_preview() and update_analysis() called once.
\* The paths of the persisted list are known to the user from the start.
Constructed(persisted) ==
    /\ editor = <<>>
    /\ modified = FALSE
    /\ current_file = ""
    /\ recent_files = _rebuild_recent_files_menu(persisted, InitialDisk)
    /\ disk = InitialDisk
    /\ update_timer = Stopped
    /\ analysis_timer = Stopped
    /\ preview_shown = <<>>
    /\ analysis_shown = <<>>
    /\ since_change = 0
    /\ previews_since = 0
    /\ analyses_since = 0
    /\ changes = 0
    /\ used = Len(persisted)
    /\ last_op = Did("none", TRUE, FALSE, FALSE)
    /\ latest = ""

\* The window on a fresh profile.
EdIdle == Constructed(<<>>)

(***************************************************************************)
(* Character classes and string helpers (Python str / re semantics).       *)
(***************************************************************************)
NL == "\n"
\* The backtick character, which a TLA+ string cannot hold.
BT == "BACKTICK"
Whitespace == {" ", "\t", "\n", "\r"}
Digits == {"0", "1", "2", "3", "4", "5", "6", "7", "8", "9"}

IsSpace(c) == c \in Whitespace

Max(S) == CHOOSE x \in S : \A y \in S : x >= y

Tail0(s, i) == SubSeq(s, i, Len(s))

\* Number of leading characters of s that are in the class `cls`.
LeadRun(s, cls) ==
    CHOOSE n \in 0..Len(s) :
        /\ n = Len(s) \/ s[n + 1] \notin cls
        /\ \A i \in 1..n : s[i] \in cls

\* Number of trailing characters of s that are in the class `cls`.
TrailRun(s, cls) ==
    CHOOSE n \in 0..Len(s) :
        /\ n = Len(s) \/ s[Len(s) - n] \notin cls
        /\ \A i \in (Len(s) - n + 1)..Len(s) : s[i] \in cls

\* str.strip(): remove leading and trailing whitespace.
strip(s) ==
    IF \A i \in 1..Len(s) : IsSpace(s[i]) THEN <<>>
    ELSE SubSeq(s, LeadRun(s, Whitespace) + 1, Len(s) - TrailRun(s, Whitespace))

\* The pattern `pat` (a sequence of characters) occurs in s at position i.
OccursAt(s, pat, i) ==
    /\ i + Len(pat) - 1 <= Len(s)
    /\ \A k \in 1..Len(pat) : s[i + k - 1] = pat[k]

\* str.find(pat, from): the first position >= from where pat occurs, else 0.
Find(s, pat, from) ==
    IF \E i \in from..Len(s) : OccursAt(s, pat, i)
    THEN CHOOSE i \in from..Len(s) :
             /\ OccursAt(s, pat, i)
             /\ \A j \in from..(i - 1) : ~OccursAt(s, pat, j)
    ELSE 0

\* str.split(sep): the pieces between the occurrences of sep taken from left
\* to right without overlap; never an empty list.
RECURSIVE split(_, _)
split(s, sep) ==
    LET i == Find(s, sep, 1)
    IN  IF i = 0 THEN <<s>>
        ELSE <<SubSeq(s, 1, i - 1)>> \o split(Tail0(s, i + Len(sep)), sep)

\* sep.join(parts)
RECURSIVE join(_, _)
join(parts, sep) ==
    IF Len(parts) = 0 THEN <<>>
    ELSE IF Len(parts) = 1 THEN parts[1]
    ELSE parts[1] \o sep \o join(Tail(parts), sep)

startswith(s, c) == Len(s) >= 1 /\ s[1] = c

(***************************************************************************)
(* MarkdownEditor.format_markdown                                          *)
(***************************************************************************)
ListMarkers == {"-", "*", "+"}

\* re.match(r'^(#{1,6})(\S)', stripped): the length of group 1, or 0 when
\* there is no match.  #{1,6} is greedy and backtracks: the longest run of
\* 1..6 hashes that is followed by a non-space character (a hash included).
HeadingLevelMatch(stripped) ==
    LET ks == {k \in 1..6 : /\ k + 1 <= Len(stripped)
                            /\ \A j \in 1..k : stripped[j] = "#"
                            /\ ~IsSpace(stripped[k + 1])}
    IN  IF ks = {} THEN 0 ELSE Max(ks)

\* re.match(r'^(\s*)([-*+])(\S)', line)
BulletMatch(line) ==
    LET i == LeadRun(line, Whitespace)
    IN  /\ i + 2 <= Len(line)
        /\ line[i + 1] \in ListMarkers
        /\ ~IsSpace(line[i + 2])

\* re.match(r'^(\s*)(\d+\.)(\S)', line): the number of digits, 0 for no match.
NumberMatch(line) ==
    LET i == LeadRun(line, Whitespace)
        d == LeadRun(Tail0(line, i + 1), Digits)
    IN  IF /\ d >= 1
           /\ i + d + 2 <= Len(line)
           /\ line[i + d + 1] = "."
           /\ ~IsSpace(line[i + d + 2])
        THEN d ELSE 0

\* A list line whose content keeps its surrounding whitespace.
ListLine_content_unstripped(line, m) ==
    LET i == LeadRun(line, Whitespace)
    IN  SubSeq(line, 1, i + m) \o <<" ">> \o Tail0(line, i + m + 1)

\* f"{indent}{marker} {content}" with indent = group 1, marker of length m,
\* content = group(3).strip() of r'^(\s*)(marker)(.*)$'.
ListLine(line, m) ==
    LET i == LeadRun(line, Whitespace)
    IN  SubSeq(line, 1, i + m) \o <<" ">> \o strip(Tail0(line, i + m + 1))

\* A blank line before every heading that is not the first line.
NeedsBlankBefore_ignoring_prev(stripped, i, prev_was_empty) ==
    startswith(stripped, "#") /\ i > 1

\* stripped.startswith('#') and i > 0 and not prev_was_empty, with the
\* 1-based index i of the model: Python's `i > 0` is `i > 1`.
NeedsBlankBefore(stripped, i, prev_was_empty) ==
    startswith(stripped, "#") /\ i > 1 /\ ~prev_was_empty

\* The loop body of format_markdown for lines[i], with the accumulated
\* formatted_lines and the two flags; the loop runs to the end of `lines`.
RECURSIVE FormatLoop(_, _, _, _, _)
FormatLoop(lines, i, formatted_lines, prev_was_heading, prev_was_empty) ==
    IF i > Len(lines) THEN formatted_lines
    ELSE
    LET line == lines[i]
        stripped == strip(line)
        isHash == startswith(stripped, "#")
        out1 == IF NeedsBlankBefore(stripped, i, prev_was_empty)
                THEN Append(formatted_lines, <<>>) ELSE formatted_lines
        k == IF isHash THEN HeadingLevelMatch(stripped) ELSE 0
        d == NumberMatch(line)
    IN  IF k > 0
        THEN FormatLoop(lines, i + 1,
                 Append(out1, SubSeq(stripped, 1, k) \o <<" ">> \o Tail0(stripped, k + 1)),
                 TRUE, FALSE)
        ELSE IF BulletMatch(line)
        THEN FormatLoop(lines, i + 1, Append(out1, ListLine(line, 1)), FALSE, FALSE)
        ELSE IF d > 0
        THEN FormatLoop(lines, i + 1, Append(out1, ListLine(line, d + 1)), FALSE, FALSE)
        ELSE IF stripped = <<>>
        THEN IF ~prev_was_empty
             THEN FormatLoop(lines, i + 1, Append(out1, <<>>), prev_was_heading, TRUE)
             ELSE FormatLoop(lines, i + 1, out1, prev_was_heading, prev_was_empty)
        ELSE FormatLoop(lines, i + 1, Append(out1, line), FALSE, FALSE)

\* The formatted lines joined as the loop left them.
PopTrailingEmpty_none(ls) == ls

\* while formatted_lines and not formatted_lines[-1]: formatted_lines.pop()
PopTrailingEmpty(ls) == SubSeq(ls, 1, Len(ls) - TrailRun(ls, {<<>>}))

format_markdown(t) ==
    join(PopTrailingEmpty(FormatLoop(split(t, <<NL>>), 1, <<>>, FALSE, FALSE)), <<NL>>)

(***************************************************************************)
(* MarkdownSyntaxHighlighter                                               *)
(***************************************************************************)
\* A QTextCharFormat: the properties the highlighter sets ("" / FALSE: unset).
CharFormat(fg, bg, bold, italic, family) ==
    [fg |-> fg, bg |-> bg, bold |-> bold, italic |-> italic, family |-> family]

\* The colour table of _build_formats for the given theme.
Palette(dark) ==
    IF dark
    THEN [heading |-> "#2f81f7", muted |-> "#8b949e", rule |-> "#30363d",
          code_fg |-> "#c9d1d9", code_bg |-> "#161b22",
          link |-> "#2f81f7", url |-> "#3fb950"]
    ELSE [heading |-> "#0b4f9c", muted |-> "#6a737d", rule |-> "#d0d7de",
          code_fg |-> "#0969da", code_bg |-> "#f6f8fa",
          link |-> "#0969da", url |-> "#1a7f37"]

\* A pattern anchored at the start of the line.
Anchored(kind) == [kind |-> kind]

\* A pattern  open [^excl]+ close  with optional lookbehind (?<!c), negative
\* lookahead (?!c) and positive lookahead (?=c).
Delim(open, excl, close, notBefore, notAfter, mustAfter) ==
    [kind |-> "delim", open |-> open, excl |-> excl, close |-> close,
     notBefore |-> notBefore, notAfter |-> notAfter, mustAfter |-> mustAfter]

\* self._rule_formats as _build_formats leaves it: (pattern, format) in order.
rule_formats(dark) ==
    LET c == Palette(dark)
        heading_format == CharFormat(c.heading, "", TRUE, FALSE, "")
        blockquote_format == CharFormat(c.muted, "", FALSE, FALSE, "")
        list_marker_format == CharFormat(c.muted, "", TRUE, FALSE, "")
        hr_format == CharFormat(c.rule, "", FALSE, FALSE, "")
        bold_format == CharFormat("", "", TRUE, FALSE, "")
        italic_format == CharFormat("", "", FALSE, TRUE, "")
        inline_code_format == CharFormat(c.code_fg, c.code_bg, FALSE, FALSE, "")
        link_text_format == CharFormat(c.link, "", FALSE, FALSE, "")
        link_url_format == CharFormat(c.url, "", FALSE, FALSE, "")
    IN  << [re |-> Anchored("heading"), fmt |-> heading_format],
           [re |-> Anchored("blockquote"), fmt |-> blockquote_format],
           [re |-> Anchored("ulist"), fmt |-> list_marker_format],
           [re |-> Anchored("olist"), fmt |-> list_marker_format],
           [re |-> Anchored("hr"), fmt |-> hr_format],
           [re |-> Delim(<<"*", "*">>, {"*", NL}, <<"*", "*">>, {}, {}, {}),
            fmt |-> bold_format],
           [re |-> Delim(<<"_", "_">>, {"_", NL}, <<"_", "_">>, {}, {}, {}),
            fmt |-> bold_format],
           [re |-> Delim(<<"*">>, {"*", NL}, <<"*">>, {"*"}, {"*"}, {}),
            fmt |-> italic_format],
           [re |-> Delim(<<"_">>, {"_", NL}, <<"_">>, {"_"}, {"_"}, {}),
            fmt |-> italic_format],
           [re |-> Delim(<<BT>>, {BT, NL}, <<BT>>, {}, {}, {}),
            fmt |-> inline_code_format],
           [re |-> Delim(<<"[">>, {"]"}, <<"]">>, {}, {}, {"("}),
            fmt |-> link_text_format],
           [re |-> Delim(<<"(">>, {")"} \cup Whitespace, <<")">>, {}, {}, {}),
            fmt |-> link_url_format] >>

\* self._codeblock_format as _build_formats leaves it.
codeblock_format(dark) ==
    LET c == Palette(dark)
    IN  CharFormat(IF dark THEN c.code_fg ELSE "#24292f", c.code_bg,
                   FALSE, FALSE, "SF Mono")

\* The \s{0,3} of the line patterns.
FenceMaxIndent == 3

\* self._fence_re = ^\s{0,3}(```|~~~): some 0..3 whitespace characters and
\* then three backticks or three tildes.
FenceDelims == {<<BT, BT, BT>>, <<"~", "~", "~">>}

\* A fence pattern that knows backticks only.
is_fence_line_backticks_only(t) ==
    \E i \in 0..FenceMaxIndent :
        /\ i + 3 <= Len(t)
        /\ \A j \in 1..i : IsSpace(t[j])
        /\ SubSeq(t, i + 1, i + 3) = <<BT, BT, BT>>

is_fence_line(t) ==
    \E i \in 0..FenceMaxIndent :
        /\ i + 3 <= Len(t)
        /\ \A j \in 1..i : IsSpace(t[j])
        /\ SubSeq(t, i + 1, i + 3) \in FenceDelims

\* The anchored patterns: the match <<capturedStart, capturedLength>> at
\* offset 0, as a sequence of zero or one matches.
AnchoredMatch(kind, t) ==
    LET i == LeadRun(t, Whitespace)
        rest == Tail0(t, i + 1)
        hashes == LeadRun(rest, {"#"})
        digits == LeadRun(rest, Digits)
        run == IF rest = <<>> THEN 0 ELSE LeadRun(rest, {rest[1]})
        ok ==
          /\ i <= FenceMaxIndent
          /\ rest # <<>>
          /\ CASE kind = "heading" ->      \* ^\s{0,3}#{1,6} .*
                    /\ hashes \in 1..6
                    /\ Len(rest) > hashes
                    /\ rest[hashes + 1] = " "
               [] kind = "blockquote" ->   \* ^\s{0,3}>\s.*
                    /\ rest[1] = ">"
                    /\ Len(rest) >= 2
                    /\ IsSpace(rest[2])
               [] kind = "ulist" ->        \* ^\s{0,3}([-*+])\s+
                    /\ rest[1] \in ListMarkers
                    /\ Len(rest) >= 2
                    /\ IsSpace(rest[2])
               [] kind = "olist" ->        \* ^\s{0,3}(\d+)\.\s+
                    /\ digits >= 1
                    /\ Len(rest) >= digits + 2
                    /\ rest[digits + 1] = "."
                    /\ IsSpace(rest[digits + 2])
               [] kind = "hr" ->           \* ^\s{0,3}(-{3,}|\*{3,}|_{3,})\s*$
                    /\ rest[1] \in {"-", "*", "_"}
                    /\ run >= 3
                    /\ \A j \in (run + 1)..Len(rest) : IsSpace(rest[j])
        length ==
            CASE kind = "ulist" -> i + 1 + LeadRun(Tail0(rest, 2), Whitespace)
              [] kind = "olist" ->
                    i + digits + 1 + LeadRun(Tail0(rest, digits + 2), Whitespace)
              [] OTHER -> Len(t)
    IN  IF ok THEN << <<0, length>> >> ELSE <<>>

\* Number of leading characters of s that are not in `excl`.
LeadRunNot(s, excl) ==
    CHOOSE n \in 0..Len(s) :
        /\ n = Len(s) \/ s[n + 1] \in excl
        /\ \A i \in 1..n : s[i] \notin excl

\* A match that leaves the lookbehind and the negative lookahead out.
DelimAt_no_lookaround(re, t, p) ==
    LET lo == Len(re.open)
        lc == Len(re.close)
        n == LeadRunNot(Tail0(t, p + lo), re.excl)
        q == p + lo + n
        e == q + lc
    IN  IF /\ p + lo - 1 <= Len(t)
           /\ SubSeq(t, p, p + lo - 1) = re.open
           /\ n >= 1
           /\ e - 1 <= Len(t)
           /\ SubSeq(t, q, e - 1) = re.close
           /\ (re.mustAfter = {} \/ (e <= Len(t) /\ t[e] \in re.mustAfter))
        THEN lo + n + lc ELSE 0

\* Length of the match of a Delim pattern that starts at position p (1-based)
\* of t, or 0.  The body is the maximal run of allowed characters: a shorter
\* body is followed by an allowed character, which no closing delimiter is.
DelimAt(re, t, p) ==
    LET lo == Len(re.open)
        lc == Len(re.close)
        n == LeadRunNot(Tail0(t, p + lo), re.excl)
        q == p + lo + n
        e == q + lc
    IN  IF /\ p + lo - 1 <= Len(t)
           /\ SubSeq(t, p, p + lo - 1) = re.open
           /\ (p = 1 \/ t[p - 1] \notin re.notBefore)
           /\ n >= 1
           /\ e - 1 <= Len(t)
           /\ SubSeq(t, q, e - 1) = re.close
           /\ (e > Len(t) \/ t[e] \notin re.notAfter)
           /\ (re.mustAfter = {} \/ (e <= Len(t) /\ t[e] \in re.mustAfter))
        THEN lo + n + lc ELSE 0

\* regex.globalMatch(text): the matches from left to right, each search
\* resuming where the previous match ended.
RECURSIVE DelimGlobalMatch(_, _, _)
DelimGlobalMatch(re, t, p) ==
    IF p > Len(t) THEN <<>>
    ELSE LET l == DelimAt(re, t, p)
         IN  IF l > 0 THEN << <<p - 1, l>> >> \o DelimGlobalMatch(re, t, p + l)
             ELSE DelimGlobalMatch(re, t, p + 1)

globalMatch(re, t) ==
    IF re.kind = "delim" THEN DelimGlobalMatch(re, t, 1)
    ELSE AnchoredMatch(re.kind, t)

\* A setFormat(start, length, fmt) call; `rule` is the index of the pattern
\* rule that made it, 0 for the code-block paint.
SetFormat(start, length, rule, fmt) ==
    [start |-> start, length |-> length, rule |-> rule, fmt |-> fmt]

\* A loop over the rules that stops at the first rule with a match.
RECURSIVE ApplyRules_short_circuit(_, _, _)
ApplyRules_short_circuit(rules, t, r) ==
    IF r > Len(rules) THEN <<>>
    ELSE LET ms == globalMatch(rules[r].re, t)
             calls == [k \in 1..Len(ms) |->
                          SetFormat(ms[k][1], ms[k][2], r, rules[r].fmt)]
         IN  IF calls # <<>> THEN calls
             ELSE ApplyRules_short_circuit(rules, t, r + 1)

\* The loop over self._rule_formats of highlightBlock, from rule r on.
RECURSIVE ApplyRules(_, _, _)
ApplyRules(rules, t, r) ==
    IF r > Len(rules) THEN <<>>
    ELSE LET ms == globalMatch(rules[r].re, t)
             calls == [k \in 1..Len(ms) |->
                          SetFormat(ms[k][1], ms[k][2], r, rules[r].fmt)]
         IN  SelectSeq(calls, LAMBDA c : c.length > 0)
                 \o ApplyRules(rules, t, r + 1)

\* A test that takes the absent state (-1) of the first block for InFence.
in_code_block_not_normal(previousBlockState) == previousBlockState # 0

\* in_code_block = self.previousBlockState() == 1
in_code_block(previousBlockState) == previousBlockState = 1

\* highlightBlock without the two early returns: the code paint is followed
\* by the pattern rules and by setCurrentBlockState(0).
highlightBlock_no_return(previousBlockState, t, dark) ==
    IF in_code_block(previousBlockState) \/ is_fence_line(t)
    THEN [state |-> 0,
          formats |-> << SetFormat(0, Len(t), 0, codeblock_format(dark)) >>
                          \o ApplyRules(rule_formats(dark), t, 1)]
    ELSE [state |-> 0,
          formats |-> ApplyRules(rule_formats(dark), t, 1)]

\* highlightBlock(text) with the given previousBlockState(): the block state
\* it sets and the setFormat calls it makes, in order.
highlightBlock(previousBlockState, t, dark) ==
    IF in_code_block(previousBlockState)
    THEN [state |-> IF is_fence_line(t) THEN 0 ELSE 1,
          formats |-> << SetFormat(0, Len(t), 0, codeblock_format(dark)) >>]
    ELSE IF is_fence_line(t)
    THEN [state |-> 1,
          formats |-> << SetFormat(0, Len(t), 0, codeblock_format(dark)) >>]
    ELSE [state |-> 0,
          formats |-> ApplyRules(rule_formats(dark), t, 1)]

\* QSyntaxHighlighter.previousBlockState() of block b: -1 for the first block.
PreviousBlockState(states, b) == IF b = 1 THEN -1 ELSE states[b - 1]

\* rehighlight(): highlightBlock on every block in order, from block b on.
RECURSIVE Rehighlight(_, _, _, _, _)
Rehighlight(bs, dark, states, formats, b) ==
    IF b > Len(bs) THEN [states |-> states, formats |-> formats]
    ELSE LET r == highlightBlock(PreviousBlockState(states, b), bs[b], dark)
         IN  Rehighlight(bs, dark, [states EXCEPT ![b] = r.state],
                         [formats EXCEPT ![b] = r.formats], b + 1)

(***************************************************************************)
(* Documents of the highlighter: 1..MaxBlocks lines, each a fence candidate *)
(* (indented 0, 3 or 4 columns) or a line the pattern rules paint.          *)
(***************************************************************************)
MaxBlocks == 3
MaxRehighlights == 2

Indent(i) == [j \in 1..i |-> " "]

FenceCandidates ==
    {Indent(i) \o d : i \in {0, FenceMaxIndent, FenceMaxIndent + 1},
                      d \in FenceDelims}

OtherLines ==
    { <<>>,
      <<BT, BT>>,
      <<BT, BT, BT, "p", "y">>,
      <<"#", " ", "a">>,
      <<"*", "*", "a", "*", "*", " ", "*", "b", "*">>,
      <<"[", "a", "]", "(", "b", ")">> }

HlLines == FenceCandidates \cup OtherLines

\* Lines on which several pattern rules match, some of them overlapping.
HlOverlapLines ==
    { <<"#", " ", "*", "a", "*", " ", "[", "b", "]", "(", "c", ")">>,
      <<"*", "*", BT, "a", BT, "*", "*">>,
      <<">", " ", "_", "_", "a", "_", "_", " ", "_", "b", "_">>,
      <<"1", ".", " ", "(", BT, "a", BT, ")">>,
      <<"-", " ", "[", "*", "a", "*", "]", "(", "b", ")">>,
      <<"-", "-", "-">>,
      <<"*", "*", "*", "x", "*", "*", "*">>,
      <<"*", "a", "*", "*", "x", "*", "*", "b", "*">>,
      <<"*", "a", "*", " ", "*", "*", "x", "*", "*", " ", "_", "b", "_">>,
      <<"_", "a", "_", "_", "x", "_", "_">> }

HlDocs ==
    UNION {[1..n -> HlLines] : n \in 1..MaxBlocks}
        \cup {<<l>> : l \in HlOverlapLines}

\* A highlighter freshly attached to a document: no block has a state yet.
HlInit ==
    /\ blocks \in HlDocs
    /\ dark_mode = FALSE
    /\ blockState = [b \in 1..Len(blocks) |-> -1]
    /\ blockFormats = [b \in 1..Len(blocks) |-> <<>>]
    /\ scanned = 0
    /\ rehighlights = 0
    /\ FmtIdle
    /\ AnIdle
    /\ EdIdle

\* The scan calls highlightBlock on the next block.
HighlightBlock ==
    /\ scanned < Len(blocks)
    /\ LET b == scanned + 1
           r == highlightBlock(PreviousBlockState(blockState, b), blocks[b],
                               dark_mode)
       IN  /\ blockState' = [blockState EXCEPT ![b] = r.state]
           /\ blockFormats' = [blockFormats EXCEPT ![b] = r.formats]
           /\ scanned' = b
    /\ UNCHANGED <<blocks, dark_mode, rehighlights>>
    /\ UNCHANGED fmtVars
    /\ UNCHANGED anVars
    /\ UNCHANGED edVars

\* set_dark_mode without the early return: the formats are rebuilt and the
\* document is rehighlighted on every call.
set_dark_mode_no_early_return(d) ==
    /\ scanned = Len(blocks)
    /\ rehighlights < MaxRehighlights
    /\ LET r == Rehighlight(blocks, d, blockState, blockFormats, 1)
       IN  /\ dark_mode' = d
           /\ blockState' = r.states
           /\ blockFormats' = r.formats
           /\ rehighlights' = rehighlights + 1
    /\ UNCHANGED <<blocks, scanned>>
    /\ UNCHANGED fmtVars
    /\ UNCHANGED anVars
    /\ UNCHANGED edVars

\* set_dark_mode(d), called between scans: nothing when d is the current
\* theme, else the formats are rebuilt and the document is rehighlighted.
\* The model follows at most MaxRehighlights theme switches.
set_dark_mode(d) ==
    /\ scanned = Len(blocks)
    /\ IF d = dark_mode
       THEN UNCHANGED <<dark_mode, blockState, blockFormats, rehighlights>>
       ELSE LET r == Rehighlight(blocks, d, blockState, blockFormats, 1)
            IN  /\ rehighlights < MaxRehighlights
                /\ dark_mode' = d
                /\ blockState' = r.states
                /\ blockFormats' = r.formats
                /\ rehighlights' = rehighlights + 1
    /\ UNCHANGED <<blocks, scanned>>
    /\ UNCHANGED fmtVars
    /\ UNCHANGED anVars
    /\ UNCHANGED edVars

HlNext == HighlightBlock \/ \E d \in BOOLEAN : set_dark_mode(d)

SpecHighlight == HlInit /\ [][HlNext]_vars

\* Documents for the pattern rules: 1..MaxRuleBlocks lines, each a line on
\* which several rules match, a fence line or a plain line.
MaxRuleBlocks == 2
RuleLines == HlOverlapLines \cup {<<BT, BT, BT>>, <<"a">>}
RuleDocs == UNION {[1..n -> RuleLines] : n \in 1..MaxRuleBlocks}

RulesInit ==
    /\ blocks \in RuleDocs
    /\ dark_mode = FALSE
    /\ blockState = [b \in 1..Len(blocks) |-> -1]
    /\ blockFormats = [b \in 1..Len(blocks) |-> <<>>]
    /\ scanned = 0
    /\ rehighlights = 0
    /\ FmtIdle
    /\ AnIdle
    /\ EdIdle

SpecRules == RulesInit /\ [][HlNext]_vars

(***************************************************************************)
(* MarkdownAnalyzer                                                        *)
(***************************************************************************)
Letters ==
    {"a", "b", "c", "d", "e", "f", "g", "h", "i", "j", "k", "l", "m",
     "n", "o", "p", "q", "r", "s", "t", "u", "v", "w", "x", "y", "z",
     "A", "B", "C", "D", "E", "F", "G", "H", "I", "J", "K", "L", "M",
     "N", "O", "P", "Q", "R", "S", "T", "U", "V", "W", "X", "Y", "Z"}

\* regex \w
WordChars == Letters \cup Digits \cup {"_"}

\* re.sub(r'```.*?```', '', t, flags=re.DOTALL) on t from position `from`:
\* the leftmost pairs of triple backticks are removed with what they hold.
RECURSIVE StripFenced(_, _)
StripFenced(t, from) ==
    LET p == Find(t, <<BT, BT, BT>>, from)
        q == IF p = 0 THEN 0 ELSE Find(t, <<BT, BT, BT>>, p + 3)
    IN  IF q = 0 THEN Tail0(t, from)
        ELSE SubSeq(t, from, p - 1) \o StripFenced(t, q + 3)

\* re.sub(r'`[^`]+`', '', t) on t from position `from`.
RECURSIVE StripInline(_, _)
StripInline(t, from) ==
    LET p == Find(t, <<BT>>, from)
        q == IF p = 0 THEN 0 ELSE Find(t, <<BT>>, p + 1)
    IN  IF p = 0 THEN Tail0(t, from)
        ELSE IF q > p + 1 THEN SubSeq(t, from, p - 1) \o StripInline(t, q + 1)
        ELSE SubSeq(t, from, p) \o StripInline(t, p + 1)

\* len(re.findall(r'\b\w+\b', t)): the maximal runs of word characters.
WordRuns(t) ==
    Cardinality({i \in 1..Len(t) :
                    /\ t[i] \in WordChars
                    /\ (i = 1 \/ t[i - 1] \notin WordChars)})

count_words(t) == WordRuns(StripInline(StripFenced(t, 1), 1))

\* n / d rounded with an exact half going up.
PyRoundHalfUp(n, d) == (2 * n + d) \div (2 * d)

\* n / d cut off instead of rounded.
PyRoundTruncating(n, d) == n \div d

\* round(n / d) of Python 3 for integers n >= 0, d > 0: to the nearest
\* integer, an exact half to the even neighbour.
PyRound(n, d) ==
    LET q == n \div d
        r == n % d
    IN  IF 2 * r < d THEN q
        ELSE IF 2 * r > d THEN q + 1
        ELSE IF q % 2 = 0 THEN q ELSE q + 1

WordsPerMinute == 200

\* The estimate without its floor of one minute.
reading_time_of_unfloored(words) == PyRound(words, WordsPerMinute)

reading_time_of(words) ==
    LET r == PyRound(words, WordsPerMinute)
    IN  IF r > 1 THEN r ELSE 1

estimate_reading_time(t) == reading_time_of(count_words(t))

\* A heading pattern ^(#+)\s+(.+)$ whose level is capped at 6.
HeadingLevelCapped(line) ==
    LET s == strip(line)
        k == LeadRun(s, {"#"})
    IN  IF k >= 1 /\ Len(s) >= k + 2 /\ IsSpace(s[k + 1])
        THEN (IF k > 6 THEN 6 ELSE k) ELSE 0

\* re.match(r'^(#{1,6})\s+(.+)$', line.strip()): len(group(1)), 0: no match.
HeadingLevel(line) ==
    LET s == strip(line)
        k == LeadRun(s, {"#"})
    IN  IF k \in 1..6 /\ Len(s) >= k + 2 /\ IsSpace(s[k + 1]) THEN k ELSE 0

\* group(1) of re.match(r'^#{1,6}\s+(.+)$', line.strip()) for a heading line.
HeadingText(line) ==
    LET s == strip(line)
        k == LeadRun(s, {"#"})
        w == LeadRun(Tail0(s, k + 1), Whitespace)
    IN  Tail0(s, k + w + 1)

\* A heading count that skips the lines between two fence lines.
analyze_headings_outside_fences(lines) ==
    [k \in 1..6 |->
        Cardinality({i \in 1..Len(lines) :
            /\ HeadingLevel(lines[i]) = k
            /\ Cardinality({j \in 1..(i - 1) : is_fence_line(lines[j])}) % 2 = 0})]

\* The headings dictionary: level -> count.
analyze_headings(lines) ==
    [k \in 1..6 |-> Cardinality({i \in 1..Len(lines) : HeadingLevel(lines[i]) = k})]

SumHeadings(h) == h[1] + h[2] + h[3] + h[4] + h[5] + h[6]

\* The end of the match of  \[ [^\]]{minText,} \] \( url \)  whose "[" is at
\* position p, or 0; url is [^\)]+ ("url") or \s* ("blank").
LinkEnd(t, p, minText, url) ==
    LET c == Find(t, <<"]">>, p + 1)
        d == Find(t, <<")">>, c + 2)
        n == LeadRun(Tail0(t, c + 2), Whitespace)
    IN  IF /\ p <= Len(t) /\ t[p] = "["
           /\ c > 0
           /\ c - p - 1 >= minText
           /\ c + 1 <= Len(t) /\ t[c + 1] = "("
        THEN IF url = "url"
             THEN (IF d > c + 2 THEN d ELSE 0)
             ELSE (IF c + 2 + n <= Len(t) /\ t[c + 2 + n] = ")"
                   THEN c + 2 + n ELSE 0)
        ELSE 0

\* len(re.findall(pattern, t)) for the link patterns, searching from `from`.
RECURSIVE CountLinks(_, _, _, _)
CountLinks(t, from, minText, url) ==
    LET p == Find(t, <<"[">>, from)
        e == LinkEnd(t, p, minText, url)
    IN  IF p = 0 THEN 0
        ELSE IF e > 0 THEN 1 + CountLinks(t, e + 1, minText, url)
        ELSE CountLinks(t, p + 1, minText, url)

\* re.findall(r'\[([^\]]+)\]\(([^\)]+)\)', text)
analyze_links(t) == CountLinks(t, 1, 1, "url")

\* re.findall(r'!\[([^\]]*)\]\(([^\)]+)\)', text)
RECURSIVE CountImages(_, _)
CountImages(t, from) ==
    LET p == Find(t, <<"!">>, from)
        e == LinkEnd(t, p + 1, 0, "url")
    IN  IF p = 0 THEN 0
        ELSE IF e > 0 THEN 1 + CountImages(t, e + 1)
        ELSE CountImages(t, p + 1)

count_images(t) == CountImages(t, 1)

\* len(re.findall(pat, t)): occurrences from left to right without overlap.
RECURSIVE CountOccurrences(_, _, _)
CountOccurrences(t, pat, from) ==
    LET p == Find(t, pat, from)
    IN  IF p = 0 THEN 0 ELSE 1 + CountOccurrences(t, pat, p + Len(pat))

count_code_blocks(t) == CountOccurrences(t, <<BT, BT, BT>>, 1) \div 2

\* re.match(r'^\s*[-*+]\s+', line) or re.match(r'^\s*\d+\.\s+', line)
ListItemMatch(line) ==
    LET rest == Tail0(line, LeadRun(line, Whitespace) + 1)
        d == LeadRun(rest, Digits)
    IN  \/ /\ Len(rest) >= 2
           /\ rest[1] \in ListMarkers
           /\ IsSpace(rest[2])
        \/ /\ d >= 1
           /\ Len(rest) >= d + 2
           /\ rest[d + 1] = "."
           /\ IsSpace(rest[d + 2])

count_lists(lines) ==
    Cardinality({i \in 1..Len(lines) : ListItemMatch(lines[i])})

count_blockquotes(lines) ==
    Cardinality({i \in 1..Len(lines) : startswith(strip(lines[i]), ">")})

\* The loop of _count_tables from line i on.
RECURSIVE TableLoop(_, _, _, _)
TableLoop(lines, i, in_table, table_count) ==
    IF i > Len(lines) THEN table_count
    ELSE LET line == lines[i]
             pipeLed == startswith(strip(line), "|")
         IN  IF (\E j \in 1..Len(line) : line[j] = "|") /\ pipeLed
             THEN IF ~in_table
                  THEN TableLoop(lines, i + 1, TRUE, table_count + 1)
                  ELSE TableLoop(lines, i + 1, in_table, table_count)
             ELSE IF in_table /\ ~pipeLed
                  THEN TableLoop(lines, i + 1, FALSE, table_count)
                  ELSE TableLoop(lines, i + 1, in_table, table_count)

\* A count of the pipe-led lines instead of their runs.
count_tables_pipe_lines(lines) ==
    Cardinality({i \in 1..Len(lines) : startswith(strip(lines[i]), "|")})

count_tables(lines) == TableLoop(lines, 1, FALSE, 0)

\* len(p.split()): the maximal runs of non-whitespace characters.
SplitWords(p) ==
    Cardinality({i \in 1..Len(p) :
                    /\ ~IsSpace(p[i])
                    /\ (i = 1 \/ IsSpace(p[i - 1]))})

RECURSIVE SumSplitWords(_, _)
SumSplitWords(paragraphs, i) ==
    IF i > Len(paragraphs) THEN 0
    ELSE SplitWords(paragraphs[i]) + SumSplitWords(paragraphs, i + 1)

\* The penalty with the test > 150 made first.
ParagraphPenalty_150_first(total, count) ==
    IF total > 150 * count THEN 20
    ELSE IF total > 100 * count THEN 10
    ELSE 0

\* The penalty for avg_paragraph_length = total / count: the test > 100 comes
\* first, so the branch > 150 is taken only when the first test fails.
ParagraphPenalty(total, count) ==
    IF total > 100 * count THEN 10
    ELSE IF total > 150 * count THEN 20
    ELSE 0

\* The score of _calculate_readability before it is clamped.
RawReadability(t, lines) ==
    LET paragraphs == split(t, <<NL, NL>>)
        count == IF Len(paragraphs) > 1 THEN Len(paragraphs) ELSE 1
        headings == analyze_headings(lines)
    IN  100
        - ParagraphPenalty(SumSplitWords(paragraphs, 1), count)
        + (IF headings[1] >= 1 /\ headings[2] > 0 THEN 10 ELSE 0)
        - (IF SumHeadings(headings) = 0 /\ count_words(t) > 50 THEN 15 ELSE 0)

\* The score returned as computed.
ClampMissing(score) == score

\* max(0, min(100, score))
Clamp(score) == IF score > 100 THEN 100 ELSE IF score < 0 THEN 0 ELSE score

calculate_readability(t, lines) == Clamp(RawReadability(t, lines))

\* A rating that asks for an H1 before it says "Good".
analyze_structure_quality_h1_first(lines) ==
    LET headings == analyze_headings(lines)
        total_headings == SumHeadings(headings)
    IN  IF total_headings = 0 THEN "No structure"
        ELSE IF headings[1] > 1 THEN "Multiple H1s detected"
        ELSE IF headings[1] = 1 /\ headings[2] > 0 THEN "Excellent"
        ELSE IF headings[1] = 0 THEN "Good"
        ELSE "Needs improvement"

analyze_structure_quality(lines) ==
    LET headings == analyze_headings(lines)
        total_headings == SumHeadings(headings)
    IN  IF total_headings = 0 THEN "No structure"
        ELSE IF headings[1] > 1 THEN "Multiple H1s detected"
        ELSE IF headings[1] = 1 /\ headings[2] > 0 THEN "Excellent"
        ELSE IF total_headings > 0 THEN "Good"
        ELSE "Needs improvement"

\* re.findall(r'\[([^\]]+)\]\(\s*\)', text)
EmptyLinks(t) == CountLinks(t, 1, 1, "blank")

\* [h for h, count in Counter(headings_text).items() if count > 1]
DuplicateHeadings(lines) ==
    LET hs == {i \in 1..Len(lines) : HeadingLevel(lines[i]) > 0}
    IN  {HeadingText(lines[i]) : i \in
            {i \in hs : \E j \in hs : j # i /\ HeadingText(lines[j]) = HeadingText(lines[i])}}

LongLineLimit == 120
LongLineCount == 5

LongLines(lines) ==
    Cardinality({i \in 1..Len(lines) :
                    /\ Len(lines[i]) > LongLineLimit
                    /\ ~startswith(strip(lines[i]), "|")})

\* The issue list returned as collected, without the sentinel.
detect_potential_issues_no_sentinel(t, lines) ==
    LET empty_links == EmptyLinks(t)
        duplicates == Cardinality(DuplicateHeadings(lines))
        long_lines == LongLines(lines)
    IN  (IF empty_links > 0
         THEN <<ToString(empty_links) \o " empty link(s)">> ELSE <<>>)
        \o (IF duplicates > 0
            THEN <<ToString(duplicates) \o " duplicate heading(s)">> ELSE <<>>)
        \o (IF long_lines > LongLineCount
            THEN <<ToString(long_lines) \o " very long lines">> ELSE <<>>)

detect_potential_issues(t, lines) ==
    LET empty_links == EmptyLinks(t)
        duplicates == Cardinality(DuplicateHeadings(lines))
        long_lines == LongLines(lines)
        issues ==
            (IF empty_links > 0
             THEN <<ToString(empty_links) \o " empty link(s)">> ELSE <<>>)
            \o (IF duplicates > 0
                THEN <<ToString(duplicates) \o " duplicate heading(s)">> ELSE <<>>)
            \o (IF long_lines > LongLineCount
                THEN <<ToString(long_lines) \o " very long lines">> ELSE <<>>)
    IN  IF issues # <<>> THEN issues ELSE <<"No issues detected">>

\* MarkdownAnalyzer(text).analyze(), with self.lines = text.split('\n')
analyze(t, lines) ==
    [word_count |-> count_words(t),
     char_count |-> Len(t),
     line_count |-> Len(lines),
     reading_time |-> estimate_reading_time(t),
     headings |-> analyze_headings(lines),
     links |-> analyze_links(t),
     images |-> count_images(t),
     code_blocks |-> count_code_blocks(t),
     lists |-> count_lists(lines),
     blockquotes |-> count_blockquotes(lines),
     tables |-> count_tables(lines),
     readability_score |-> calculate_readability(t, lines),
     structure_quality |-> analyze_structure_quality(lines),
     broken_links |-> detect_potential_issues(t, lines)]

(***************************************************************************)
(* Texts given to the analyzer.  Three families: short documents of lines  *)
(* of every construct, prose of a chosen number of words under a heading   *)
(* structure, and documents of long lines with or without an empty link    *)
(* and a repeated heading.                                                 *)
(***************************************************************************)
MaxAnLines == 2
MaxWords == 701
MaxLongLines == 6

Rep(u, n) == [i \in 1..(n * Len(u)) |-> u[((i - 1) % Len(u)) + 1]]

Hashes(k) == Rep(<<"#">>, k)

AnLines ==
    {Hashes(k) \o <<" ", "a">> : k \in 1..7}
    \cup { <<>>,
           <<"#", "a">>,
           <<" ", "#", " ", " ", "b", " ">>,
           <<"[", "a", "]", "(", ")">>,
           <<"[", "a", "]", "(", "b", ")">>,
           <<"!", "[", "a", "]", "(", "b", ")">>,
           <<"|", " ", "a">>,
           <<"-", " ", "a">>,
           <<">", " ", "a">>,
           <<BT, BT, BT>>,
           <<BT, "a", BT, " ", "b">> }

AnShortDocs ==
    {join(ls, <<NL>>) : ls \in UNION {[1..n -> AnLines] : n \in 1..MaxAnLines}}

ProseHeads ==
    { <<>>,
      <<"#", " ", "a", NL>>,
      <<"#", " ", "a", NL, "#", "#", " ", "b", NL>>,
      <<BT, "c", " ", "c", BT, " ">>,
      <<BT, BT, BT, NL, "c", " ", "c", NL, BT, BT, BT, NL>> }

\* n words in one paragraph, or in two paragraphs of half the words each.
Prose(n, paragraphs) ==
    IF paragraphs = 1 THEN Rep(<<"a", " ">>, n)
    ELSE Rep(<<"a", " ">>, n \div 2) \o <<NL, NL>> \o Rep(<<"a", " ">>, n - n \div 2)

ProseWordCounts == {n \in 0..MaxWords : n % 50 \in {0, 1, 49}}

AnProseDocs ==
    {h \o Prose(n, p) : h \in ProseHeads, n \in ProseWordCounts, p \in 1..2}

IssueLinks ==
    { <<>>,
      <<"[", "a", "]", "(", ")", NL>>,
      <<"x", "[", "a", "]", "(", " ", " ", ")", "[", "b", "]", "(", ")", NL>>,
      <<"[", "a", "]", "(", "b", ")", NL>> }

IssueHeads ==
    { <<>>,
      <<"#", " ", "a", NL, "#", " ", "a", NL>>,
      <<"#", " ", "a", NL, "#", "#", " ", " ", "a", " ", NL>>,
      <<"#", " ", "a", NL, "#", " ", "b", NL>> }

IssueLines ==
    { Rep(<<"a">>, LongLineLimit + 1),
      Rep(<<"a">>, LongLineLimit),
      <<" ", "|">> \o Rep(<<"a">>, LongLineLimit) }

AnIssueDocs ==
    {l \o h \o join([i \in 1..k |-> line], <<NL>>) :
        l \in IssueLinks, h \in IssueHeads, line \in IssueLines,
        k \in 0..MaxLongLines}

\* Documents of up to MaxTableLines lines, each pipe-led, plain or blank.
MaxTableLines == 5

TableLines ==
    { <<"|", " ", "a">>,
      <<" ", "|", "b", "|">>,
      <<"a", "|", "b">>,
      <<>> }

AnTableDocs ==
    {join(ls, <<NL>>) : ls \in UNION {[1..n -> TableLines] : n \in 3..MaxTableLines}}

\* Documents of up to MaxCodeLines lines: fence delimiters of both kinds,
\* prose, and prose with an inline code span.
MaxCodeLines == 4

CodeLines ==
    { <<BT, BT, BT>>,
      <<"~", "~", "~">>,
      <<"a", " ", "b">>,
      <<"c", " ", "d", " ", BT, "x", BT>> }

AnCodeDocs ==
    {join(ls, <<NL>>) : ls \in UNION {[1..n -> CodeLines] : n \in 2..MaxCodeLines}}

\* Up to MaxFencedLines heading-, list- and blockquote-shaped lines, as they
\* are and between two fence lines.
MaxFencedLines == 2

ShapedLines ==
    { <<"#", " ", "a">>,
      <<"#", "#", " ", "b">>,
      <<"-", " ", "a">>,
      <<"1", ".", " ", "a">>,
      <<">", " ", "a">> }

AnFencedDocs ==
    UNION {{join(ls, <<NL>>), join(<<d>> \o ls \o <<d>>, <<NL>>)} :
              ls \in UNION {[1..n -> ShapedLines] : n \in 1..MaxFencedLines},
              d \in FenceDelims}

AnTexts ==
    AnShortDocs \cup AnProseDocs \cup AnIssueDocs \cup AnTableDocs
        \cup AnCodeDocs \cup AnFencedDocs

\* MarkdownAnalyzer.__init__(text)
AnInit ==
    /\ an_text \in AnTexts
    /\ an_lines = split(an_text, <<NL>>)
    /\ metrics = Null
    /\ FmtIdle
    /\ HlIdle
    /\ EdIdle

\* metrics = analyzer.analyze()
Analyze ==
    /\ metrics' = Some(analyze(an_text, an_lines))
    /\ UNCHANGED <<an_text, an_lines>>
    /\ UNCHANGED fmtVars
    /\ UNCHANGED hlVars
    /\ UNCHANGED edVars

AnNext == Analyze

SpecAnalyze == AnInit /\ [][AnNext]_vars

(***************************************************************************)
(* Inputs of the reformatter.                                              *)
(***************************************************************************)
MaxFmtLen == 5

FmtChars == {"#", " ", "a", "-", NL}

SeqsUpTo(S, n) == UNION {[1..k -> S] : k \in 0..n}

FmtExamples ==
    { <<"#", "#", "#", " ", "T">>,
      <<"#", "#", " ", "T", "i", "t", "l", "e">>,
      <<"*", "*", "*">>,
      <<"*", "*", "b", "*", "*", " ", "t">>,
      <<"*", "i", "*">>,
      <<"1", ".", "5", " ", "k", "m">>,
      <<" ", " ", "1", "0", ".", "a", " ", " ">>,
      <<"x", NL, "+", " ", " ", "y">>,
      <<"#", "#", "#", "#", "#", "#", "#", "a">>,
      <<"1", ".", " ", "a", " ">>,
      <<"\t", "*", "a", " ", " ", "b", "\t">>,
      <<"a", NL, " ", NL, NL, "#", "#", "b", NL, " ", NL>>,
      <<BT, BT, BT, NL, "#", "i", "n", "c", "l", "u", "d", "e", " ", "<", "x", ">",
        NL, BT, BT, BT>>,
      <<BT, BT, BT, NL, "x", " ", "=", " ", "1", NL, BT, BT, BT>>,
      <<"~", "~", "~", NL, "-", "x", NL, NL, NL, "y", NL, "~", "~", "~">> }

FmtInputs == SeqsUpTo(FmtChars, MaxFmtLen) \cup FmtExamples

FormatInit ==
    /\ text \in FmtInputs
    /\ formatted = Null
    /\ reformatted = Null
    /\ HlIdle
    /\ AnIdle
    /\ EdIdle

\* A first call: formatted_text = self.format_markdown(markdown_text)
Format ==
    /\ formatted = Null
    /\ formatted' = Some(format_markdown(text))
    /\ UNCHANGED <<text, reformatted>>
    /\ UNCHANGED hlVars
    /\ UNCHANGED anVars
    /\ UNCHANGED edVars

\* The transform applied to its own output.
Reformat ==
    /\ formatted.done
    /\ reformatted = Null
    /\ reformatted' = Some(format_markdown(formatted.value))
    /\ UNCHANGED <<text, formatted>>
    /\ UNCHANGED hlVars
    /\ UNCHANGED anVars
    /\ UNCHANGED edVars

FormatNext == Format \/ Reformat

SpecFormat == FormatInit /\ [][FormatNext]_vars

(***************************************************************************)
(* C1: format_markdown is idempotent: formatting the output of             *)
(* format_markdown again gives the same text, for every input text.        *)
(***************************************************************************)
C1_Idempotent == reformatted.done => reformatted.value = formatted.value

(***************************************************************************)
(* The classifier's claims speak of fence-delimiter lines and of the state *)
(* a line is processed in; both are stated here from the document alone.   *)
(***************************************************************************)
\* At most 3 leading whitespace characters, then three backticks or tildes.
IsFenceDelimiterLine(t) ==
    LET i == LeadRun(t, Whitespace)
    IN  /\ i <= 3
        /\ i + 3 <= Len(t)
        /\ \/ \A j \in (i + 1)..(i + 3) : t[j] = BT
           \/ \A j \in (i + 1)..(i + 3) : t[j] = "~"

FenceCountBefore(b) ==
    Cardinality({j \in 1..(b - 1) : IsFenceDelimiterLine(blocks[j])})

\* The carry-state block b is processed in, counted from the document.
ProcessedInFence(b) == FenceCountBefore(b) % 2 = 1

Incoming(b) == IF b = 1 THEN -1 ELSE blockState[b - 1]

\* The block was painted over its whole length as code and by nothing else.
CodePainted(b) ==
    /\ Len(blockFormats[b]) = 1
    /\ blockFormats[b][1].start = 0
    /\ blockFormats[b][1].length = Len(blocks[b])
    /\ blockFormats[b][1].fmt = codeblock_format(dark_mode)
    /\ \A k \in 1..Len(blockFormats[b]) : blockFormats[b][k].rule = 0

(***************************************************************************)
(* C2: after highlightBlock on a line the block state is InFence (1)       *)
(* exactly when the incoming state is InFence and the line is not a        *)
(* fence-delimiter line, or the incoming state is Normal and the line is a *)
(* fence-delimiter line; otherwise it is Normal (0).  Backticks and tildes *)
(* close each other's fences.                                              *)
(***************************************************************************)
C2_FenceTransition ==
    \A b \in 1..scanned :
        LET fence == IsFenceDelimiterLine(blocks[b])
            inFence == Incoming(b) = 1
            normal == Incoming(b) \in {0, -1}
        IN  blockState[b] =
                IF (inFence /\ ~fence) \/ (normal /\ fence) THEN 1 ELSE 0

\* A tilde line closes a fence opened by backticks, and a line indented by
\* four columns inside the fence leaves it open.
C2_Witness ==
    /\ scanned = 3
    /\ blocks[1] = <<BT, BT, BT>>
    /\ blocks[2] = Indent(4) \o <<BT, BT, BT>>
    /\ blocks[3] = <<"~", "~", "~">>
    /\ blockState = <<1, 1, 0>>

(***************************************************************************)
(* C3: a scan starts in Normal at the first line, and when the scan is     *)
(* over the last block state is InFence if and only if the document has an *)
(* odd number of fence-delimiter lines.                                    *)
(***************************************************************************)
C3_ScanParity ==
    /\ scanned >= 1 =>
          (blockState[1] = 1 <=> IsFenceDelimiterLine(blocks[1]))
    /\ scanned = Len(blocks) =>
          (blockState[Len(blocks)] = 1 <=> FenceCountBefore(Len(blocks) + 1) % 2 = 1)

\* A document whose single fenced block is closed ends in Normal.
C3_Witness ==
    /\ scanned = Len(blocks)
    /\ Len(blocks) = 3
    /\ IsFenceDelimiterLine(blocks[1])
    /\ ~IsFenceDelimiterLine(blocks[2])
    /\ IsFenceDelimiterLine(blocks[3])
    /\ blockState[3] = 0

(***************************************************************************)
(* C4: every line processed in InFence, and every fence-delimiter line     *)
(* processed in Normal, is painted over its whole length as code and gets  *)
(* no span from a pattern rule; the lines from an opening fence that is    *)
(* never closed on are all painted so and leave the state InFence.         *)
(***************************************************************************)
C4_CodePaint ==
    /\ \A b \in 1..scanned :
          (ProcessedInFence(b) \/ IsFenceDelimiterLine(blocks[b]))
              => CodePainted(b)
    /\ \A f \in 1..Len(blocks) :
          ( /\ IsFenceDelimiterLine(blocks[f])
            /\ ~ProcessedInFence(f)
            /\ \A b \in (f + 1)..Len(blocks) : ~IsFenceDelimiterLine(blocks[b]) )
          => \A b \in f..scanned : CodePainted(b) /\ blockState[b] = 1

\* An unclosed fence followed by lines the pattern rules would paint.
C4_Witness ==
    /\ scanned = Len(blocks)
    /\ Len(blocks) = 3
    /\ IsFenceDelimiterLine(blocks[1])
    /\ AnchoredMatch("heading", blocks[2]) # <<>>
    /\ DelimGlobalMatch(rule_formats(dark_mode)[6].re, blocks[3], 1) # <<>>
    /\ blockState[3] = 1
    /\ CodePainted(2) /\ CodePainted(3)


(***************************************************************************)
(* The analyzer's claims, stated on the text and on the returned record.   *)
(***************************************************************************)
Headings == metrics.value.headings

\* The trimmed line is k hashes, at least one whitespace character, content.
IsHeadingOfLevel(line, k) ==
    LET s == strip(line)
    IN  \E w \in 1..Len(s) :
            /\ k + w < Len(s)
            /\ \A i \in 1..k : s[i] = "#"
            /\ \A i \in (k + 1)..(k + w) : IsSpace(s[i])

\* The trimmed line starts with seven or more hashes.
StartsWithSevenHashes(line) ==
    LET s == strip(line)
    IN  Len(s) >= 7 /\ \A i \in 1..7 : s[i] = "#"

\* The content of a heading line of level k: what follows the whitespace.
ContentOfHeading(line, k) ==
    LET s == strip(line)
        w == CHOOSE w \in 1..Len(s) :
                 /\ \A i \in (k + 1)..(k + w) : IsSpace(s[i])
                 /\ ~IsSpace(s[k + w + 1])
    IN  Tail0(s, k + w + 1)

PositionsOf(t, c) == {i \in 1..Len(t) : t[i] = c}

\* Some [text]() with non-empty text and an empty or whitespace-only URL.
HasEmptyLink(t) ==
    \E p \in PositionsOf(t, "[") : \E c \in PositionsOf(t, "]") :
        /\ c >= p + 2
        /\ \A i \in (p + 1)..(c - 1) : t[i] # "]"
        /\ c + 1 <= Len(t) /\ t[c + 1] = "("
        /\ \E d \in PositionsOf(t, ")") :
              /\ d >= c + 2
              /\ \A i \in (c + 2)..(d - 1) : IsSpace(t[i])

\* Some heading text stands on more than one line.
HasDuplicateHeading(ls) ==
    \E i, j \in 1..Len(ls) : \E k1, k2 \in 1..6 :
        /\ i < j
        /\ IsHeadingOfLevel(ls[i], k1)
        /\ IsHeadingOfLevel(ls[j], k2)
        /\ ContentOfHeading(ls[i], k1) = ContentOfHeading(ls[j], k2)

IsPipeLed(line) ==
    \E j \in 1..Len(line) :
        line[j] = "|" /\ \A i \in 1..(j - 1) : IsSpace(line[i])

\* More than 5 lines are longer than 120 characters and not pipe-led.
HasManyLongLines(ls) ==
    Cardinality({i \in 1..Len(ls) : Len(ls[i]) > 120 /\ ~IsPipeLed(ls[i])}) > 5

\* The entry reports a count with the given wording.
IsIssue(entry, wording) ==
    \E n \in 1..Len(an_text) : entry = ToString(n) \o wording

(***************************************************************************)
(* C5: for the empty text every count of the record returned by analyze()  *)
(* is 0: word_count, char_count, line_count, the six heading buckets,      *)
(* links, images, code_blocks, lists, blockquotes and tables.              *)
(***************************************************************************)
C5_EmptyAllZero ==
    (an_text = <<>> /\ metrics.done) =>
        /\ metrics.value.word_count = 0
        /\ metrics.value.char_count = 0
        /\ metrics.value.line_count = 0
        /\ \A k \in 1..6 : Headings[k] = 0
        /\ metrics.value.links = 0
        /\ metrics.value.images = 0
        /\ metrics.value.code_blocks = 0
        /\ metrics.value.lists = 0
        /\ metrics.value.blockquotes = 0
        /\ metrics.value.tables = 0

(***************************************************************************)
(* C6: for the empty text analyze() returns reading_time 1,                *)
(* readability_score 100, structure_quality "No structure" and the issue   *)
(* list <<"No issues detected">>.                                          *)
(***************************************************************************)
C6_EmptyDefaults ==
    (an_text = <<>> /\ metrics.done) =>
        /\ metrics.value.reading_time = 1
        /\ metrics.value.readability_score = 100
        /\ metrics.value.structure_quality = "No structure"
        /\ metrics.value.broken_links = <<"No issues detected">>

C6_Witness == an_text = <<>> /\ metrics.done

(***************************************************************************)
(* C7: word_count >= 0 and reading_time = max(1, round(word_count / 200)), *)
(* round being to the nearest integer (an exact half to the even one); so  *)
(* reading_time >= 1.                                                      *)
(***************************************************************************)
C7_ReadingTime ==
    metrics.done =>
        LET wc == metrics.value.word_count
            rt == metrics.value.reading_time
        IN  /\ wc >= 0
            /\ rt >= 1
            /\ \E q \in 0..(wc + 1) :
                  LET off == IF 200 * q >= wc THEN 200 * q - wc ELSE wc - 200 * q
                  IN  /\ off <= 100
                      /\ off = 100 => q % 2 = 0
                      /\ rt = IF q >= 1 THEN q ELSE 1

\* 350 words round up to 2 minutes; 500 words are a tie and go to 2.
C7_Witness ==
    /\ metrics.done
    /\ metrics.value.word_count = 350
    /\ metrics.value.reading_time = 2

(***************************************************************************)
(* C8: the readability score is an integer in 0..100 whatever penalties    *)
(* and bonus apply.                                                        *)
(***************************************************************************)
C8_ReadabilityRange ==
    metrics.done => metrics.value.readability_score \in 0..100

\* The heading bonus without a penalty takes the raw score above 100.
C8_Witness ==
    /\ metrics.done
    /\ Headings[1] >= 1 /\ Headings[2] >= 1
    /\ RawReadability(an_text, an_lines) = 110
    /\ metrics.value.readability_score = 100

(***************************************************************************)
(* C9: the issue list is never empty; it holds, in this order, one entry   *)
(* for empty links, one for duplicate headings and one for long lines,     *)
(* each exactly when its check triggers; it is the single sentinel         *)
(* "No issues detected" exactly when no check triggers, and the sentinel   *)
(* never stands beside a real issue.                                       *)
(***************************************************************************)
C9_Issues ==
    metrics.done =>
        LET issues == metrics.value.broken_links
            expected ==
                (IF HasEmptyLink(an_text) THEN <<" empty link(s)">> ELSE <<>>)
                \o (IF HasDuplicateHeading(an_lines)
                    THEN <<" duplicate heading(s)">> ELSE <<>>)
                \o (IF HasManyLongLines(an_lines)
                    THEN <<" very long lines">> ELSE <<>>)
        IN  /\ issues # <<>>
            /\ (issues = <<"No issues detected">>) <=> (expected = <<>>)
            /\ expected # <<>> =>
                  /\ Len(issues) = Len(expected)
                  /\ \A i \in 1..Len(issues) :
                        /\ IsIssue(issues[i], expected[i])
                        /\ issues[i] # "No issues detected"

\* All three checks trigger.
C9_Witness ==
    /\ metrics.done
    /\ HasEmptyLink(an_text)
    /\ HasDuplicateHeading(an_lines)
    /\ HasManyLongLines(an_lines)
    /\ Len(metrics.value.broken_links) = 3

(***************************************************************************)
(* C10: a line whose trimmed content is k hashes (1 <= k <= 6), whitespace *)
(* and content counts once in bucket h<k> and in no other; a line starting *)
(* with 7 or more hashes counts in no bucket; the buckets sum to the       *)
(* number of lines that match the 1-to-6 rule.                             *)
(***************************************************************************)
C10_HeadingBuckets ==
    metrics.done =>
        /\ \A k \in 1..6 :
              Headings[k] =
                  Cardinality({i \in 1..Len(an_lines) :
                                  IsHeadingOfLevel(an_lines[i], k)})
        /\ SumHeadings(Headings) =
              Cardinality({i \in 1..Len(an_lines) :
                              /\ ~StartsWithSevenHashes(an_lines[i])
                              /\ \E k \in 1..6 : IsHeadingOfLevel(an_lines[i], k)})

\* A line of seven hashes beside a "# a" line: only h1 counts.
C10_Witness ==
    /\ metrics.done
    /\ \E i, j \in 1..Len(an_lines) :
          /\ StartsWithSevenHashes(an_lines[i])
          /\ IsHeadingOfLevel(an_lines[j], 1)
    /\ Headings = <<1, 0, 0, 0, 0, 0>>


(***************************************************************************)
(* C11: _count_tables returns the number of maximal runs of consecutive    *)
(* pipe-led lines (lines whose trimmed content starts with '|'): three     *)
(* consecutive pipe-led lines are one table, two pipe-led blocks with a    *)
(* line between them that is not pipe-led (a blank one included) are two.  *)
(* The in-table flag after a line is set exactly when that line is         *)
(* pipe-led: one more pipe-led line is a new table exactly after a line    *)
(* that is not pipe-led.                                                   *)
(***************************************************************************)
PipeRunStarts(ls) ==
    {i \in 1..Len(ls) : IsPipeLed(ls[i]) /\ (i = 1 \/ ~IsPipeLed(ls[i - 1]))}

C11_TableRuns ==
    metrics.done =>
        /\ metrics.value.tables = Cardinality(PipeRunStarts(an_lines))
        /\ \A i \in 1..Len(an_lines) :
              LET upto == SubSeq(an_lines, 1, i)
              IN  count_tables(Append(upto, <<"|">>)) =
                      count_tables(upto) + (IF IsPipeLed(an_lines[i]) THEN 0 ELSE 1)

\* Three pipe-led lines, a blank line, a pipe-led line: two tables.
C11_Witness ==
    /\ metrics.done
    /\ Len(an_lines) = 5
    /\ \A i \in {1, 2, 3, 5} : IsPipeLed(an_lines[i])
    /\ an_lines[4] = <<>>
    /\ metrics.value.tables = 2

(***************************************************************************)
(* C12: the structure label is "No structure" when no line is a heading,   *)
(* else "Multiple H1s detected" when more than one line is an H1, else     *)
(* "Excellent" when exactly one line is an H1 and some line is an H2, else *)
(* "Good"; "Needs improvement" is never the label, and a document with one *)
(* H1 and no H2 is "Good".                                                 *)
(***************************************************************************)
HeadingLinesOfLevel(k) ==
    Cardinality({i \in 1..Len(an_lines) : IsHeadingOfLevel(an_lines[i], k)})

HeadingLines ==
    Cardinality({i \in 1..Len(an_lines) :
                    \E k \in 1..6 : IsHeadingOfLevel(an_lines[i], k)})

C12_StructureLabels ==
    metrics.done =>
        LET label == metrics.value.structure_quality
        IN  /\ label # "Needs improvement"
            /\ label =
                  IF HeadingLines = 0 THEN "No structure"
                  ELSE IF HeadingLinesOfLevel(1) > 1 THEN "Multiple H1s detected"
                  ELSE IF HeadingLinesOfLevel(1) = 1 /\ HeadingLinesOfLevel(2) >= 1
                       THEN "Excellent"
                  ELSE "Good"

\* One H1, no H2, another heading beside it: "Good".
C12_Witness ==
    /\ metrics.done
    /\ HeadingLinesOfLevel(1) = 1
    /\ HeadingLinesOfLevel(2) = 0
    /\ HeadingLines = 2
    /\ metrics.value.structure_quality = "Good"

(***************************************************************************)
(* C14: the word count leaves out what stands between a complete pair of   *)
(* fence delimiters, for a pair of triple backticks and for a pair of      *)
(* triple tildes alike: in a text whose only backticks and tildes are one  *)
(* such pair, the words counted are those before and after the pair.       *)
(***************************************************************************)
OccurrencesOf(t, pat) == {i \in 1..Len(t) : OccursAt(t, pat, i)}

\* The text is  before, d, inside, d, after  with no other backtick or tilde.
IsOneFencedPair(t, d) ==
    /\ Cardinality(OccurrencesOf(t, d)) = 2
    /\ Cardinality(PositionsOf(t, BT) \cup PositionsOf(t, "~")) = 6

OutsideOfPair(t, d) ==
    LET p == Find(t, d, 1)
        q == Find(t, d, p + 3)
    IN  SubSeq(t, 1, p - 1) \o Tail0(t, q + 3)

C14_FencedExcluded ==
    metrics.done =>
        \A d \in FenceDelims :
            IsOneFencedPair(an_text, d) =>
                metrics.value.word_count = WordRuns(OutsideOfPair(an_text, d))

(***************************************************************************)
(* C15: with an odd number of triple-backtick delimiters, what follows the *)
(* last, unpaired delimiter is counted as prose (its words count as they   *)
(* would in a text of their own), and what precedes that delimiter is      *)
(* counted with every complete pair stripped.                              *)
(***************************************************************************)
\* The delimiters d of t from left to right, none overlapping another.
RECURSIVE DelimiterPositions(_, _, _)
DelimiterPositions(t, d, from) ==
    LET p == Find(t, d, from)
    IN  IF p = 0 THEN <<>> ELSE <<p>> \o DelimiterPositions(t, d, p + Len(d))

TripleBackticks == DelimiterPositions(an_text, <<BT, BT, BT>>, 1)

C15_UnterminatedCounted ==
    metrics.done =>
        LET ds == TripleBackticks
            last == ds[Len(ds)]
        IN  Len(ds) % 2 = 1 =>
                metrics.value.word_count =
                    count_words(SubSeq(an_text, 1, last - 1))
                    + count_words(Tail0(an_text, last + 3))

(***************************************************************************)
(* C16: the theme does not reach the classifier.  A switch of the theme    *)
(* leaves every block's carry-state and the geometry of every painted      *)
(* range (start, length, rule) as they were, the rule list keeps the same  *)
(* patterns in the same order, and the formats differ in their colours     *)
(* only; a rehighlight happens only when the theme changes, and a call of  *)
(* set_dark_mode with the current theme changes nothing.                   *)
(***************************************************************************)
Geometry(fs) == [k \in 1..Len(fs) |-> <<fs[k].start, fs[k].length, fs[k].rule>>]

Patterns(rules) == [r \in 1..Len(rules) |-> rules[r].re]

SameButColours(fs, gs) ==
    \A k \in 1..Len(fs) :
        /\ fs[k].fmt.bold = gs[k].fmt.bold
        /\ fs[k].fmt.italic = gs[k].fmt.italic
        /\ fs[k].fmt.family = gs[k].fmt.family

C16_ThemeIndependent ==
    [][/\ dark_mode' # dark_mode =>
            /\ blockState' = blockState
            /\ \A b \in 1..Len(blocks) :
                  /\ Geometry(blockFormats'[b]) = Geometry(blockFormats[b])
                  /\ SameButColours(blockFormats[b], blockFormats'[b])
            /\ Patterns(rule_formats(dark_mode')) = Patterns(rule_formats(dark_mode))
       /\ rehighlights' # rehighlights => dark_mode' # dark_mode
       /\ (scanned' = scanned /\ dark_mode' = dark_mode) => UNCHANGED hlVars
      ]_vars

\* The dark theme after one switch, on a document with a painted heading, a
\* fence line and a line inside the fence.
C16_Witness ==
    /\ dark_mode
    /\ rehighlights = 1
    /\ \E b \in 1..Len(blocks) :
          /\ blockFormats[b] # <<>>
          /\ blockFormats[b][1].rule = 1
          /\ blockFormats[b][1].fmt.fg = Palette(TRUE).heading
    /\ \E b \in 2..Len(blocks) :
          /\ blockState[b - 1] = 1
          /\ blockState[b] = 1
          /\ blockFormats[b][1].fmt = codeblock_format(TRUE)

(***************************************************************************)
(* The reformatter's claims, stated on the input lines, on what the loop   *)
(* has emitted after each input line, and on the lines of the output.      *)
(***************************************************************************)
InLines == split(text, <<NL>>)

OutLines == split(formatted.value, <<NL>>)

\* formatted_lines after the loop has handled the input lines 1..i.
Emitted(i) == FormatLoop(SubSeq(InLines, 1, i), 1, <<>>, FALSE, FALSE)

\* The output line produced from input line i: the last one emitted for it.
OutLineOf(i) == OutLines[Len(Emitted(i))]

IsBlank(line) == \A j \in 1..Len(line) : IsSpace(line[j])

(***************************************************************************)
(* C17: the output of format_markdown never has two blank lines in a row   *)
(* and never ends with a blank line, whatever the input.                   *)
(***************************************************************************)
C17_BlankLines ==
    formatted.done =>
        /\ \A i \in 1..(Len(OutLines) - 1) :
              ~(IsBlank(OutLines[i]) /\ IsBlank(OutLines[i + 1]))
        /\ formatted.value # <<>> => ~IsBlank(OutLines[Len(OutLines)])

\* An input with two blank lines in a row before a heading and with a blank
\* (whitespace-only) last line; the output keeps one blank line.
C17_Witness ==
    /\ formatted.done
    /\ \E i \in 2..(Len(InLines) - 1) :
          /\ IsBlank(InLines[i - 1])
          /\ IsBlank(InLines[i])
          /\ startswith(InLines[i + 1], "#")
    /\ InLines[Len(InLines)] # <<>>
    /\ IsBlank(InLines[Len(InLines)])
    /\ \E i \in 1..Len(OutLines) : OutLines[i] = <<>>

(***************************************************************************)
(* C18: a heading line of k hashes (1 <= k <= 6) and a content is emitted  *)
(* as the k hashes, one space and the content, so its level is kept; a     *)
(* heading already in that form ('## Title') is emitted unchanged.         *)
(***************************************************************************)
C18_HeadingNormalized ==
    formatted.done =>
        \A i \in 1..Len(InLines) :
            LET s == strip(InLines[i])
                k == LeadRun(s, {"#"})
                content == Tail0(s, k + LeadRun(Tail0(s, k + 1), Whitespace) + 1)
            IN  (k \in 1..6 /\ content # <<>>) =>
                    OutLineOf(i) = Hashes(k) \o <<" ">> \o content

(***************************************************************************)
(* C19: a list line (indentation, a marker '-', '*', '+' or digits and a   *)
(* dot, then at once a non-space character) is emitted as its indentation, *)
(* the marker, one space and the content trimmed on both sides; a list     *)
(* line with exactly one space after its marker is emitted unchanged.      *)
(***************************************************************************)
\* The position of the last character of the list marker of the line, or 0.
MarkerEnd(line) ==
    LET w == LeadRun(line, Whitespace)
        d == LeadRun(Tail0(line, w + 1), Digits)
    IN  IF w < Len(line) /\ line[w + 1] \in {"-", "*", "+"} THEN w + 1
        ELSE IF d >= 1 /\ w + d < Len(line) /\ line[w + d + 1] = "." THEN w + d + 1
        ELSE 0

C19_ListNormalized ==
    formatted.done =>
        \A i \in 1..Len(InLines) :
            LET line == InLines[i]
                e == MarkerEnd(line)
            IN  /\ (e > 0 /\ e < Len(line) /\ ~IsSpace(line[e + 1])) =>
                      OutLineOf(i) =
                          SubSeq(line, 1, e) \o <<" ">> \o strip(Tail0(line, e + 1))
                /\ (/\ e > 0 /\ e + 1 < Len(line)
                    /\ line[e + 1] = " " /\ ~IsSpace(line[e + 2])) =>
                      OutLineOf(i) = line

\* An indented numbered line with its content right after the dot and
\* whitespace after the content.
C19_Witness ==
    /\ formatted.done
    /\ Len(InLines) = 1
    /\ LET line == InLines[1]
           e == MarkerEnd(line)
       IN  /\ LeadRun(line, Whitespace) > 0
           /\ e > 0 /\ e < Len(line)
           /\ line[e] = "."
           /\ ~IsSpace(line[e + 1])
           /\ IsSpace(line[Len(line)])
           /\ Len(formatted.value) < Len(line)

(***************************************************************************)
(* C20: in the output, a line produced from an input line whose trimmed    *)
(* content starts with '#' comes from the first input line or stands right *)
(* after a blank line; the blank line is inserted exactly when the line is *)
(* not the first input line and the line emitted before it is not blank.   *)
(***************************************************************************)
C20_BlankBeforeHeading ==
    formatted.done =>
        \A i \in 1..Len(InLines) :
            startswith(strip(InLines[i]), "#") =>
                LET before == IF i = 1 THEN <<>> ELSE Emitted(i - 1)
                    p == Len(Emitted(i))
                IN  /\ i = 1 \/ OutLines[p - 1] = <<>>
                    /\ p - Len(before) =
                          IF i > 1 /\ before[Len(before)] # <<>> THEN 2 ELSE 1

\* A '#' line right after a text line, and a '#' line after a blank line:
\* one blank line is inserted, before the first of them.
C20_Witness ==
    /\ formatted.done
    /\ \E i \in 2..Len(InLines) :
          /\ startswith(strip(InLines[i]), "#")
          /\ ~IsBlank(InLines[i - 1])
    /\ \E i \in 2..Len(InLines) :
          /\ startswith(strip(InLines[i]), "#")
          /\ IsBlank(InLines[i - 1])
    /\ Len(OutLines) = Len(InLines) + 1

(***************************************************************************)
(* C21: on a line processed in Normal that is not a fence-delimiter line,  *)
(* every pattern rule is applied, in the order heading, blockquote,        *)
(* unordered list marker, ordered list marker, horizontal rule, bold with  *)
(* stars then with underscores, italic with a star then with an            *)
(* underscore, inline code, link text, link URL: each                      *)
(* rule paints all its own matches whatever the other rules matched, a     *)
(* character that matches of several rules cover ends with the paint of    *)
(* the latest of them in this order, and the state after the line is       *)
(* Normal.                                                                 *)
(***************************************************************************)
Covers(c, pos) == c.start <= pos /\ pos < c.start + c.length

\* The format a position ends with: that of the last setFormat over it.
FinalPaint(fs, pos) ==
    fs[Max({k \in 1..Len(fs) : Covers(fs[k], pos)})].fmt

RulesInOrder(rules) ==
    /\ Len(rules) = 12
    /\ [r \in 1..5 |-> rules[r].re.kind] =
           <<"heading", "blockquote", "ulist", "olist", "hr">>
    /\ [r \in 6..12 |-> rules[r].re.open] =
           [r \in 6..12 |->
               << <<"*", "*">>, <<"_", "_">>, <<"*">>, <<"_">>, <<BT>>,
                  <<"[">>, <<"(">> >>[r - 5]]

\* The non-empty matches of rule r on the line t, as <<start, length>>.
MatchesOf(rules, r, t) ==
    SelectSeq(globalMatch(rules[r].re, t), LAMBDA m : m[2] > 0)

C21_AllRulesInOrder ==
    \A b \in 1..scanned :
        (Incoming(b) # 1 /\ ~IsFenceDelimiterLine(blocks[b])) =>
            LET fs == blockFormats[b]
                t == blocks[b]
                rules == rule_formats(dark_mode)
                ms == [r \in 1..Len(rules) |-> MatchesOf(rules, r, t)]
            IN  /\ blockState[b] = 0
                /\ RulesInOrder(rules)
                /\ \A k \in 1..(Len(fs) - 1) : fs[k].rule <= fs[k + 1].rule
                /\ \A r \in 1..Len(rules) :
                      LET own == SelectSeq(fs, LAMBDA c : c.rule = r)
                      IN  [k \in 1..Len(own) |-> <<own[k].start, own[k].length>>]
                              = ms[r]
                /\ \A pos \in 0..(Len(t) - 1) :
                      LET over == {r \in 1..Len(rules) :
                                     \E k \in 1..Len(ms[r]) :
                                        /\ ms[r][k][1] <= pos
                                        /\ pos < ms[r][k][1] + ms[r][k][2]}
                      IN  over # {} => FinalPaint(fs, pos) = rules[Max(over)].fmt

\* A heading line with an italic span and a link in it: four rules paint,
\* and the italic span lies inside the heading's range.
C21_Witness ==
    /\ scanned = 1
    /\ Len(blockFormats[1]) = 4
    /\ [k \in 1..4 |-> blockFormats[1][k].rule] = <<1, 8, 11, 12>>
    /\ Covers(blockFormats[1][1], 3)
    /\ Covers(blockFormats[1][2], 3)
    /\ FinalPaint(blockFormats[1], 3).italic
    /\ blockState[1] = 0

(***************************************************************************)
(* C22: an italic span never starts or ends on a character of a bold       *)
(* delimiter: where the line holds a bold span (two stars or two           *)
(* underscores, a content, the same two characters), no span painted by an *)
(* italic rule begins on one of the two opening characters or ends on one  *)
(* of the two closing characters.                                          *)
(***************************************************************************)
BoldRules == {6, 7}
ItalicRules == {8, 9}

\* The bold spans of the line t as <<first, last>> character offsets.
BoldSpans(t) ==
    {<<m[1] - 1, m[1] + m[2] - 2>> :
        m \in {<<p, DelimAt(rule_formats(FALSE)[r].re, t, p)>> :
                  p \in 1..Len(t), r \in BoldRules} \ {<<p, 0>> : p \in 1..Len(t)}}

C22_ItalicOffBoldDelimiters ==
    \A b \in 1..scanned :
        \A k \in 1..Len(blockFormats[b]) :
            LET c == blockFormats[b][k]
            IN  c.rule \in ItalicRules =>
                    \A s \in BoldSpans(blocks[b]) :
                        /\ c.start \notin {s[1], s[1] + 1}
                        /\ c.start + c.length - 1 \notin {s[2] - 1, s[2]}

\* A line with an italic span before and after its bold span.
C22_Witness ==
    /\ scanned = 1
    /\ BoldSpans(blocks[1]) = {<<4, 8>>}
    /\ \E k \in 1..Len(blockFormats[1]) :
          /\ blockFormats[1][k].rule \in ItalicRules
          /\ blockFormats[1][k].start = 0

(***************************************************************************)
(* C23: the readability score is 100, minus 10 exactly when the average    *)
(* number of words per paragraph exceeds 100 (also when it exceeds 150: no *)
(* text loses 20), plus 10 exactly when there is at least one H1 and at    *)
(* least one H2, minus 15 exactly when there is no heading and the word    *)
(* count exceeds 50, cut to the range 0..100.                              *)
(***************************************************************************)
\* The paragraphs are the pieces between blank-line separators "\n\n".
ParagraphCount == Len(DelimiterPositions(an_text, <<NL, NL>>, 1)) + 1

\* The whitespace-separated words of the text: none spans a separator.
TextWords ==
    Cardinality({i \in 1..Len(an_text) :
                    /\ an_text[i] \notin Whitespace
                    /\ (i = 1 \/ an_text[i - 1] \in Whitespace)})

LongParagraphs == TextWords > 100 * ParagraphCount

C23_ReadabilityTerms ==
    metrics.done =>
        LET raw == 100
                   - (IF LongParagraphs THEN 10 ELSE 0)
                   + (IF HeadingLinesOfLevel(1) >= 1 /\ HeadingLinesOfLevel(2) >= 1
                      THEN 10 ELSE 0)
                   - (IF HeadingLines = 0 /\ metrics.value.word_count > 50
                      THEN 15 ELSE 0)
        IN  metrics.value.readability_score = IF raw > 100 THEN 100 ELSE raw

\* More than 150 words per paragraph and no heading: 100 - 10 - 15.
C23_Witness ==
    /\ metrics.done
    /\ TextWords > 150 * ParagraphCount
    /\ HeadingLines = 0
    /\ metrics.value.readability_score = 75

(***************************************************************************)
(* C24: a word count exactly halfway between two multiples of 200          *)
(* (100 + 200 k) rounds to the even neighbour, not upward: 100 words give  *)
(* 1 (by the minimum), 300 give 2, 500 give 2, 700 give 4; and no smaller  *)
(* word count has a longer reading time.                                   *)
(***************************************************************************)
C24_HalfToEven ==
    metrics.done =>
        LET wc == metrics.value.word_count
            rt == metrics.value.reading_time
            k == wc \div 200
        IN  /\ wc % 200 = 100 =>
                  rt = IF k = 0 THEN 1 ELSE IF k % 2 = 0 THEN k ELSE k + 1
            /\ wc = 100 => rt = 1
            /\ wc = 300 => rt = 2
            /\ wc = 500 => rt = 2
            /\ wc = 700 => rt = 4
            /\ \A w \in 0..wc : reading_time_of(w) <= rt

\* 500 words: halfway between 2 and 3 minutes, 2 is returned.
C24_Witness ==
    /\ metrics.done
    /\ metrics.value.word_count = 500
    /\ metrics.value.reading_time = 2

(***************************************************************************)
(* C25: a non-blank input line that is neither a heading line nor a list   *)
(* line is emitted unchanged, character for character: in particular a     *)
(* horizontal rule ('---', '***'), a line that begins with emphasis        *)
(* ('**bold** text', '*italic*') and a line that begins with a decimal     *)
(* number ('1.5 km').                                                      *)
(***************************************************************************)
\* Three or more of one of the characters - * _ and nothing else.
IsHorizontalRule(line) ==
    /\ Len(line) >= 3
    /\ line[1] \in {"-", "*", "_"}
    /\ \A j \in 1..Len(line) : line[j] = line[1]

\* The line begins with a star-delimited span: *x* or **x**.
BeginsWithEmphasis(line) ==
    \E o \in 1..2 : \E c \in (o + 2)..Len(line) :
        /\ \A j \in 1..o : line[j] = "*"
        /\ \A j \in (o + 1)..(c - 1) : line[j] # "*" /\ ~IsSpace(line[j])
        /\ c + o - 1 <= Len(line)
        /\ \A j \in c..(c + o - 1) : line[j] = "*"

\* The line begins with digits, a dot and a digit.
BeginsWithDecimal(line) ==
    LET d == LeadRun(line, Digits)
    IN  d >= 1 /\ d + 2 <= Len(line) /\ line[d + 1] = "." /\ line[d + 2] \in Digits

C25_OtherLinesVerbatim ==
    formatted.done =>
        \A i \in 1..Len(InLines) :
            ( \/ IsHorizontalRule(InLines[i])
              \/ BeginsWithEmphasis(InLines[i])
              \/ BeginsWithDecimal(InLines[i]) )
                => OutLineOf(i) = InLines[i]

(***************************************************************************)
(* C26: the content of a fenced code block is left untouched: every line   *)
(* between an opening fence-delimiter line and its closing fence-delimiter *)
(* line is emitted unchanged, and no blank line is inserted or removed     *)
(* between those lines ('#include <x>' and '-x' stay as written).          *)
(***************************************************************************)
\* Input line f opens a fence that input line g closes.
IsFencedBlock(f, g) ==
    /\ f < g
    /\ IsFenceDelimiterLine(InLines[f])
    /\ IsFenceDelimiterLine(InLines[g])
    /\ \A j \in (f + 1)..(g - 1) : ~IsFenceDelimiterLine(InLines[j])
    /\ Cardinality({j \in 1..(f - 1) : IsFenceDelimiterLine(InLines[j])}) % 2 = 0

C26_FencedContentUntouched ==
    formatted.done =>
        \A f, g \in 1..Len(InLines) :
            IsFencedBlock(f, g) =>
                SubSeq(OutLines, Len(Emitted(f)) + 1, Len(Emitted(g)) - 1)
                    = SubSeq(InLines, f + 1, g - 1)

(***************************************************************************)
(* C27: the line scans of the analyzer carry no fence state: a heading-,   *)
(* list- or blockquote-shaped line is counted whether or not it stands     *)
(* between fence lines, so a line the classifier paints as code can add to *)
(* a heading bucket and change the structure label (two '# ...' lines in   *)
(* one code block give "Multiple H1s detected").                           *)
(***************************************************************************)
\* The lines between an opening fence line and the fence line that closes it.
InFenceLines ==
    {i \in 1..Len(an_lines) :
        /\ ~IsFenceDelimiterLine(an_lines[i])
        /\ Cardinality({j \in 1..(i - 1) : IsFenceDelimiterLine(an_lines[j])}) % 2 = 1}

IsListShaped(line) ==
    LET e == MarkerEnd(line)
    IN  e > 0 /\ e < Len(line) /\ IsSpace(line[e + 1])

IsQuoteShaped(line) == startswith(strip(line), ">")

CountOf(S, Shaped(_)) == Cardinality({i \in S : Shaped(an_lines[i])})

C27_NoFenceState ==
    metrics.done =>
        LET all == 1..Len(an_lines)
            out == all \ InFenceLines
            H1(line) == IsHeadingOfLevel(line, 1)
        IN  /\ \A k \in 1..6 :
                  LET Hk(line) == IsHeadingOfLevel(line, k)
                  IN  Headings[k] = CountOf(out, Hk) + CountOf(InFenceLines, Hk)
            /\ metrics.value.lists =
                  CountOf(out, IsListShaped) + CountOf(InFenceLines, IsListShaped)
            /\ metrics.value.blockquotes =
                  CountOf(out, IsQuoteShaped) + CountOf(InFenceLines, IsQuoteShaped)
            /\ \A i \in InFenceLines :
                  highlightBlock(1, an_lines[i], FALSE) =
                      [state |-> 1,
                       formats |-> << SetFormat(0, Len(an_lines[i]), 0,
                                                codeblock_format(FALSE)) >>]
            /\ CountOf(InFenceLines, H1) >= 2 =>
                  metrics.value.structure_quality = "Multiple H1s detected"

\* Two H1-shaped lines inside one code block and no heading outside it.
C27_Witness ==
    /\ metrics.done
    /\ Len(an_lines) = 4
    /\ InFenceLines = {2, 3}
    /\ IsHeadingOfLevel(an_lines[2], 1)
    /\ IsHeadingOfLevel(an_lines[3], 1)
    /\ Headings[1] = 2
    /\ metrics.value.structure_quality = "Multiple H1s detected"

(***************************************************************************)
(* The editor window (MarkdownEditor): the debounced refresh.  Time is     *)
(* counted in milliseconds; the event loop delivers a timeout no earlier   *)
(* than the timer's interval after its last start, and possibly later.     *)
(***************************************************************************)
PreviewDelay == 300
AnalysisDelay == 800

\* The model follows at most MaxChanges edits, each to one of EdTexts.
MaxChanges == 3
EdTexts == {<<>>, <<"a">>}

\* How far the clock moves between two events the window handles.
TickSteps == {100, 250}

Larger(a, b) == IF a >= b THEN a ELSE b
Smaller(a, b) == IF a <= b THEN a ELSE b

\* QTimer.start(msec): starts the timer, or stops and restarts a running one.
start(msec) == [active |-> TRUE, remaining |-> msec]

\* A timer after d more milliseconds.
elapse(timer, d) ==
    IF timer.active
    THEN [timer EXCEPT !.remaining = Larger(0, @ - d)]
    ELSE timer

\* on_text_changed with start() taken as "start unless already running".
on_text_changed_start_if_stopped ==
    /\ update_timer' =
           IF update_timer.active THEN update_timer ELSE start(PreviewDelay)
    /\ analysis_timer' =
           IF analysis_timer.active THEN analysis_timer
           ELSE start(AnalysisDelay)
    /\ since_change' = 0
    /\ previews_since' = 0
    /\ analyses_since' = 0

\* on_text_changed(), the slot of editor.textChanged.
on_text_changed ==
    /\ update_timer' = start(PreviewDelay)
    /\ analysis_timer' = start(AnalysisDelay)
    /\ since_change' = 0
    /\ previews_since' = 0
    /\ analyses_since' = 0

\* The user edits the text to t: the document becomes modified and
\* textChanged is emitted.
EditText(t) ==
    /\ changes < MaxChanges
    /\ t # editor
    /\ editor' = t
    /\ modified' = TRUE
    /\ changes' = changes + 1
    /\ on_text_changed
    /\ last_op' = Did("edit", TRUE, FALSE, FALSE)
    /\ UNCHANGED <<preview_shown, analysis_shown>>
    /\ UNCHANGED <<current_file, recent_files, disk, used, latest>>
    /\ UNCHANGED fmtVars
    /\ UNCHANGED hlVars
    /\ UNCHANGED anVars

\* d milliseconds pass without an event.
Tick(d) ==
    /\ update_timer' = elapse(update_timer, d)
    /\ analysis_timer' = elapse(analysis_timer, d)
    /\ since_change' = Smaller(since_change + d, AnalysisDelay)
    /\ UNCHANGED <<editor, modified, changes, preview_shown, analysis_shown,
                   previews_since, analyses_since>>
    /\ UNCHANGED fileVars
    /\ UNCHANGED fmtVars
    /\ UNCHANGED hlVars
    /\ UNCHANGED anVars

\* update_timer.timeout -> update_preview(): the single-shot timer stops
\* and the preview is rendered from the editor's text.
update_preview ==
    /\ update_timer.active
    /\ update_timer.remaining = 0
    /\ update_timer' = Stopped
    /\ preview_shown' = editor
    /\ previews_since' = previews_since + 1
    /\ UNCHANGED <<editor, modified, changes, analysis_timer, analysis_shown,
                   since_change, analyses_since>>
    /\ UNCHANGED fileVars
    /\ UNCHANGED fmtVars
    /\ UNCHANGED hlVars
    /\ UNCHANGED anVars

\* analysis_timer.timeout -> update_analysis(): the single-shot timer stops
\* and the analysis is computed from self.editor.toPlainText().
update_analysis ==
    /\ analysis_timer.active
    /\ analysis_timer.remaining = 0
    /\ analysis_timer' = Stopped
    /\ analysis_shown' = editor
    /\ analyses_since' = analyses_since + 1
    /\ UNCHANGED <<editor, modified, changes, update_timer, preview_shown,
                   since_change, previews_since>>
    /\ UNCHANGED fileVars
    /\ UNCHANGED fmtVars
    /\ UNCHANGED hlVars
    /\ UNCHANGED anVars

DebounceInit ==
    /\ EdIdle
    /\ FmtIdle
    /\ HlIdle
    /\ AnIdle

Elapse == \E d \in TickSteps : Tick(d)

DebounceNext ==
    \/ \E t \in EdTexts : EditText(t)
    \/ Elapse
    \/ update_preview
    \/ update_analysis

\* The clock runs and the event loop delivers the timeout of a timer that
\* has expired and is still running.
SpecDebounce ==
    /\ DebounceInit
    /\ [][DebounceNext]_vars
    /\ WF_vars(Elapse)
    /\ WF_vars(update_preview)
    /\ WF_vars(update_analysis)

\* The time a running timer has left is its delay minus the time since the
\* last change: every change has restarted it.
C28_Restarted ==
    changes > 0 =>
        /\ update_timer.active =>
               update_timer.remaining = Larger(0, PreviewDelay - since_change)
        /\ analysis_timer.active =>
               analysis_timer.remaining
                   = Larger(0, AnalysisDelay - since_change)

\* A timer-driven update has run since the last change at most once, and
\* only when its delay has passed since that change.
C28_NotTooEarly ==
    /\ previews_since <= 1
    /\ analyses_since <= 1
    /\ previews_since = 1 => since_change >= PreviewDelay
    /\ analyses_since = 1 => since_change >= AnalysisDelay
    /\ previews_since = 1 => ~update_timer.active
    /\ analyses_since = 1 => ~analysis_timer.active

\* Both outputs show the editor's text, each after exactly one timer-driven
\* update since the last change.
C28_Settled ==
    /\ preview_shown = editor
    /\ analysis_shown = editor
    /\ changes > 0 => previews_since = 1 /\ analyses_since = 1

MaxRecentFiles == 10

\* The paths chosen in a dialog or in the recent-files menu: new paths, in
\* the order of their numbers, and the path the user goes back to, in its
\* two spellings.
ReopenPaths == {AbsPath(1)} \cup RelPaths
PathChoices ==
    (IF used < MaxPaths THEN {AbsPath(used + 1)} ELSE {}) \cup ReopenPaths
\* The path p was chosen; a new path counts as used once an operation on
\* it has succeeded.
Chosen(p, ok) ==
    used' = IF p \in ReopenPaths \/ p = "" \/ ~ok THEN used ELSE used + 1

\* The settings of a profile on which earlier sessions have opened all
\* the paths but the last two, the first path first.
PersistedRecent == [i \in 1..(MaxPaths - 2) |-> AbsPath(MaxPaths - 1 - i)]

\* The file an outside program deletes.
DeletablePaths == {AbsPath(1)}

\* _add_recent_file without the filter on the paths already listed.
_add_recent_file_unfiltered(recent, file_path, d) ==
    IF file_path = ""
    THEN recent
    ELSE LET fp == abspath(file_path)
             inserted == <<fp>> \o recent
             cut == SubSeq(inserted, 1, Smaller(Len(inserted), MaxRecentFiles))
         IN  _rebuild_recent_files_menu(cut, d)

\* _add_recent_file(file_path): the new value of self._recent_files.
_add_recent_file(recent, file_path, d) ==
    IF file_path = ""
    THEN recent
    ELSE LET fp == abspath(file_path)
             other(p) == abspath(p) # fp
             inserted == <<fp>> \o SelectSeq(recent, other)
             cut == SubSeq(inserted, 1, Smaller(Len(inserted), MaxRecentFiles))
         IN  _rebuild_recent_files_menu(cut, d)

\* What a file operation leaves alone: the text engine, and the clock of
\* the refresh timers.
FileFrame ==
    /\ UNCHANGED <<changes, preview_shown, analysis_shown>>
    /\ UNCHANGED fmtVars
    /\ UNCHANGED hlVars
    /\ UNCHANGED anVars

\* open_file_path(file_path); readable: whether open() and read() succeed
\* on an existing file.
open_file_path(file_path, readable) ==
    /\ file_path \in PathChoices \cup {""}
    /\ Chosen(file_path, exists(disk, file_path) /\ readable)
    /\ IF file_path = ""
       THEN UNCHANGED <<editor, modified, timerVars, current_file,
                        recent_files, disk, last_op, latest>>
       ELSE IF exists(disk, file_path) /\ readable
       THEN /\ editor' = disk[abspath(file_path)].value
            /\ on_text_changed
            /\ modified' = FALSE
            /\ current_file' = file_path
            /\ recent_files' = _add_recent_file(recent_files, file_path, disk)
            /\ latest' = abspath(file_path)
            /\ last_op' = Did("open", TRUE, FALSE, FALSE)
            /\ UNCHANGED disk
       ELSE /\ last_op' = Did("open", FALSE, FALSE, TRUE)
            /\ UNCHANGED <<editor, modified, timerVars, current_file,
                           recent_files, disk, latest>>
    /\ FileFrame

\* The outcomes of open(file_path, 'w') followed by write(): both succeed,
\* open raises (nothing is written), or write raises (the file has been
\* truncated).
SaveOutcomes == {"ok", "open_failed", "write_failed"}

\* _save_to_file(file_path, show_errors=..., update_recent=...), called by
\* the operation op.
_save_to_file(file_path, show_errors, update_recent, outcome, op) ==
    /\ CASE outcome = "ok" ->
              /\ disk' = [disk EXCEPT ![abspath(file_path)] = Some(editor)]
              /\ current_file' = file_path
              /\ modified' = FALSE
              /\ recent_files' =
                     IF update_recent
                     THEN _add_recent_file(recent_files, file_path, disk')
                     ELSE recent_files
              /\ latest' = IF op = "autosave" THEN latest
                           ELSE abspath(file_path)
              /\ last_op' = Did(op, TRUE, TRUE, FALSE)
         [] outcome = "open_failed" ->
              /\ last_op' = Did(op, FALSE, FALSE, show_errors)
              /\ UNCHANGED <<disk, current_file, modified, recent_files,
                             latest>>
         [] outcome = "write_failed" ->
              /\ disk' = [disk EXCEPT ![abspath(file_path)] = Some(<<>>)]
              /\ last_op' = Did(op, FALSE, TRUE, show_errors)
              /\ UNCHANGED <<current_file, modified, recent_files, latest>>
    /\ UNCHANGED <<editor, timerVars>>

\* save_to_file(file_path)
save_to_file(file_path, outcome) ==
    _save_to_file(file_path, TRUE, TRUE, outcome, "save")

\* The body of save_file_as(): the dialog returns file_path ("" when it is
\* cancelled).
SaveAsDialog(file_path, outcome) ==
    /\ file_path \in PathChoices \cup {""}
    /\ Chosen(file_path, outcome = "ok")
    /\ IF file_path # ""
       THEN save_to_file(file_path, outcome)
       ELSE UNCHANGED <<editor, modified, timerVars, current_file,
                        recent_files, disk, last_op, latest>>

\* save_file_as()
save_file_as(file_path, outcome) ==
    /\ SaveAsDialog(file_path, outcome)
    /\ FileFrame

\* save_file(); file_path is what the dialog returns when there is no
\* current file.
save_file(file_path, outcome) ==
    /\ IF current_file # ""
       THEN /\ file_path = ""
            /\ save_to_file(current_file, outcome)
            /\ UNCHANGED used
       ELSE SaveAsDialog(file_path, outcome)
    /\ FileFrame

\* _autosave_tick without the isModified() test.
_autosave_tick_unmodified_too(outcome) ==
    /\ IF current_file = ""
       THEN /\ last_op' = Did("autosave", TRUE, FALSE, FALSE)
            /\ UNCHANGED <<editor, modified, timerVars, current_file,
                           recent_files, disk, latest>>
       ELSE _save_to_file(current_file, FALSE, FALSE, outcome, "autosave")
    /\ UNCHANGED used
    /\ FileFrame

\* _autosave_tick(), the slot of the repeating _autosave_timer.
_autosave_tick(outcome) ==
    /\ IF current_file = "" \/ ~modified
       THEN /\ last_op' = Did("autosave", TRUE, FALSE, FALSE)
            /\ UNCHANGED <<editor, modified, timerVars, current_file,
                           recent_files, disk, latest>>
       ELSE _save_to_file(current_file, FALSE, FALSE, outcome, "autosave")
    /\ UNCHANGED used
    /\ FileFrame

\* _clear_recent_files()
_clear_recent_files ==
    /\ recent_files' = _rebuild_recent_files_menu(<<>>, disk)
    /\ latest' = ""
    /\ last_op' = Did("clear", TRUE, FALSE, FALSE)
    /\ UNCHANGED <<editor, modified, timerVars, current_file, disk,
                   used>>
    /\ FileFrame

\* new_file(): editor.clear() emits textChanged.
new_file ==
    /\ editor' = <<>>
    /\ on_text_changed
    /\ current_file' = ""
    /\ modified' = FALSE
    /\ last_op' = Did("new", TRUE, FALSE, FALSE)
    /\ UNCHANGED <<recent_files, disk, used, latest>>
    /\ FileFrame

\* Another program deletes a file.
ExternalDelete(p) ==
    /\ p \in DeletablePaths
    /\ disk[p].done
    /\ disk' = [disk EXCEPT ![p] = Null]
    /\ last_op' = Did("delete", TRUE, FALSE, FALSE)
    /\ UNCHANGED <<editor, modified, timerVars, current_file, recent_files,
                   used, latest>>
    /\ FileFrame

FilesInit ==
    /\ Constructed(PersistedRecent)
    /\ FmtIdle
    /\ HlIdle
    /\ AnIdle

DialogResults == AbsPaths \cup RelPaths \cup {""}

FilesNext ==
    \/ \E t \in EdTexts : EditText(t)
    \/ \E p \in DialogResults, r \in BOOLEAN : open_file_path(p, r)
    \/ \E p \in DialogResults, o \in SaveOutcomes : save_file(p, o)
    \/ \E p \in DialogResults, o \in SaveOutcomes : save_file_as(p, o)
    \/ \E o \in SaveOutcomes : _autosave_tick(o)
    \/ _clear_recent_files
    \/ new_file
    \/ \E p \in DeletablePaths : ExternalDelete(p)

SpecFiles == FilesInit /\ [][FilesNext]_vars

\* C29: the recent-files list holds at most 10 entries and no path twice
\* (compared as absolute paths); while it has not been cleared since, the
\* path of the latest successful open or explicit save is its first entry;
\* and right after _clear_recent_files it is empty.
C29_RecentFiles ==
    /\ Len(recent_files) <= MaxRecentFiles
    /\ \A i, j \in 1..Len(recent_files) :
           i # j => abspath(recent_files[i]) # abspath(recent_files[j])
    /\ latest # "" => recent_files # <<>> /\ recent_files[1] = latest
    /\ last_op.op = "clear" => recent_files = <<>>

\* Every path has been opened or saved to, the last one latest: the list is
\* full, and the oldest entry has been cut off.
C29_Witness ==
    /\ used = MaxPaths
    /\ latest = AbsPath(MaxPaths)
    /\ recent_files = [i \in 1..MaxRecentFiles |-> AbsPath(MaxPaths + 1 - i)]

\* C30: an autosave tick writes only when a current file is set and the
\* document is modified, and otherwise changes neither the files, the
\* current file, the modified flag nor the recent-files list; a successful
\* autosave leaves the editor's text in the current file and clears the
\* modified flag; a failed one shows no dialog and leaves the document
\* modified with its current file, so that the next tick writes again; no
\* autosave tick changes the recent-files list or the current file.
C30_Autosave ==
    [][last_op'.op = "autosave" =>
          LET due == current_file # "" /\ modified
          IN  /\ last_op'.wrote => due
              /\ ~due => /\ disk' = disk
                         /\ modified' = modified
              /\ current_file' = current_file
              /\ recent_files' = recent_files
              /\ ~last_op'.dialog
              /\ due /\ last_op'.ok =>
                     /\ disk' = [disk EXCEPT
                                    ![abspath(current_file)] = Some(editor)]
                     /\ ~modified'
              /\ ~last_op'.ok => due /\ modified' /\ current_file' # ""
    ]_vars

\* An autosave has written the edited text to the current file after the
\* recent-files list was cleared: the list is still empty.
C30_Witness ==
    /\ last_op.op = "autosave"
    /\ last_op.ok
    /\ last_op.wrote
    /\ current_file # ""
    /\ ~modified
    /\ editor # <<>>
    /\ disk[abspath(current_file)] = Some(editor)
    /\ recent_files = <<>>

====
